---- MODULE Spec2Model ----
(***************************************************************************)
(* Model of the ENTSO-E day-ahead price extractor:                         *)
(*   utils.get_valid_bidding_zones, ExternalApiConfig,                     *)
(*   core_functions.fetch_day_ahead_prices / fetch_day_ahead_prices_api /  *)
(*   fetch_conversion_rates and the CLI's main.                            *)
(*                                                                         *)
(* Strings are tuples of one-character strings, so that split, strip,      *)
(* upper, the shorthand regex and alphabetical sorting are computed.       *)
(* Time is counted in 15-minute slots of UTC; slot 0 is 2024-12-12 00:00   *)
(* UTC and calendar day 0 is 2024-12-12 (a Thursday).  The modelled days   *)
(* lie in December, where Europe/Oslo is UTC+1 throughout.                 *)
(***************************************************************************)
EXTENDS Integers, Sequences, FiniteSets, TLC

\* ------------------------------------------------------------------------
\* Bounds of the model
\* ------------------------------------------------------------------------
\* last calendar day a caller may name as start or end (days 0..MaxDay)
MaxDay == 3
\* value returned by the configuration's maximum-days-per-request accessor
MaxDaysBound == 2

\* ------------------------------------------------------------------------
\* Characters and strings
\* ------------------------------------------------------------------------
\* the characters that occur, in code-point order (Python compares str by code point)
AsciiOrder ==
  <<" ", ",", "0", "1", "2", "3", "4", "5", "6", "7", "8", "9",
    "A", "B", "D", "E", "F", "I", "K", "L", "N", "O", "P", "R", "S", "T", "U", "V", "W", "X",
    "_",
    "a", "b", "c", "d", "e", "f", "i", "k", "l", "n", "o", "p", "r", "s", "t", "u", "v", "w", "x", "y">>

Ord(c) == CHOOSE i \in 1..Len(AsciiOrder) : AsciiOrder[i] = c

Digits == {"0", "1", "2", "3", "4", "5", "6", "7", "8", "9"}

\* str.__lt__: lexicographic comparison by code point
RECURSIVE StrLess(_, _)
StrLess(a, b) ==
  IF b = <<>> THEN FALSE
  ELSE IF a = <<>> THEN TRUE
  ELSE IF Ord(Head(a)) < Ord(Head(b)) THEN TRUE
  ELSE IF Ord(Head(a)) > Ord(Head(b)) THEN FALSE
  ELSE StrLess(Tail(a), Tail(b))

\* sorted(...) / list.sort() of a set of strings
RECURSIVE SortedList(_)
SortedList(S) ==
  IF S = {} THEN <<>>
  ELSE LET m == CHOOSE x \in S : \A y \in S : x = y \/ StrLess(x, y)
       IN <<m>> \o SortedList(S \ {m})

\* str.upper() on one character
UpperChar(c) ==
  CASE c = "a" -> "A" [] c = "b" -> "B" [] c = "d" -> "D" [] c = "e" -> "E"
    [] c = "f" -> "F" [] c = "i" -> "I" [] c = "k" -> "K" [] c = "l" -> "L"
    [] c = "n" -> "N" [] c = "o" -> "O" [] c = "p" -> "P" [] c = "r" -> "R"
    [] c = "s" -> "S" [] c = "t" -> "T" [] c = "u" -> "U" [] c = "v" -> "V"
    [] c = "w" -> "W" [] c = "x" -> "X"
    [] c = "c" -> "C" [] c = "y" -> "Y"
    [] OTHER -> c

\* the string as it is, letter case kept
Upper_none(s) == s

\* str.upper()
Upper(s) == [i \in 1..Len(s) |-> UpperChar(s[i])]

\* str.strip(): drop leading and trailing blanks
RECURSIVE LStrip(_)
LStrip(s) == IF s # <<>> /\ Head(s) = " " THEN LStrip(Tail(s)) ELSE s

RECURSIVE RStrip(_)
RStrip(s) == IF s # <<>> /\ s[Len(s)] = " " THEN RStrip(SubSeq(s, 1, Len(s) - 1)) ELSE s

Strip(s) == RStrip(LStrip(s))

\* str.split(","): the pieces between commas (always at least one piece)
RECURSIVE SplitComma(_, _)
SplitComma(s, cur) ==
  IF s = <<>> THEN <<cur>>
  ELSE IF Head(s) = "," THEN <<cur>> \o SplitComma(Tail(s), <<>>)
  ELSE SplitComma(Tail(s), Append(cur, Head(s)))

\* str(int(digits)): leading zeros are dropped
RECURSIVE IntStr(_)
IntStr(d) == IF Len(d) > 1 /\ Head(d) = "0" THEN IntStr(Tail(d)) ELSE d

SeqRange(s) == {s[i] : i \in 1..Len(s)}

\* ------------------------------------------------------------------------
\* Zone codes (both vocabularies that occur in the source)
\* ------------------------------------------------------------------------
NO1 == <<"N", "O", "1">>
NO2 == <<"N", "O", "2">>
NO3 == <<"N", "O", "3">>
NO4 == <<"N", "O", "4">>
NO5 == <<"N", "O", "5">>
SE1 == <<"S", "E", "1">>
SE2 == <<"S", "E", "2">>
SE3 == <<"S", "E", "3">>
SE4 == <<"S", "E", "4">>
DK1 == <<"D", "K", "1">>
DK2 == <<"D", "K", "2">>
FI == <<"F", "I">>
NL == <<"N", "L">>
DE == <<"D", "E">>
FR == <<"F", "R">>
BE == <<"B", "E">>
AT == <<"A", "T">>
EE == <<"E", "E">>
LT == <<"L", "T">>
LV == <<"L", "V">>
PL == <<"P", "L">>
NO_1 == <<"N", "O", "_", "1">>
NO_2 == <<"N", "O", "_", "2">>
NO_3 == <<"N", "O", "_", "3">>
NO_4 == <<"N", "O", "_", "4">>
NO_5 == <<"N", "O", "_", "5">>
DK_1 == <<"D", "K", "_", "1">>
DK_2 == <<"D", "K", "_", "2">>
SE_1 == <<"S", "E", "_", "1">>
SE_2 == <<"S", "E", "_", "2">>
SE_3 == <<"S", "E", "_", "3">>
SE_4 == <<"S", "E", "_", "4">>
DE_LU == <<"D", "E", "_", "L", "U">>
NO_2_NSL == <<"N", "O", "_", "2", "_", "N", "S", "L">>

\* group keywords
kw_norway == <<"n", "o", "r", "w", "a", "y">>
kw_denmark == <<"d", "e", "n", "m", "a", "r", "k">>
kw_sweden == <<"s", "w", "e", "d", "e", "n">>
kw_nordics == <<"n", "o", "r", "d", "i", "c", "s">>
kw_baltics == <<"b", "a", "l", "t", "i", "c", "s">>
kw_cwe == <<"c", "w", "e">>
kw_nsl == <<"n", "s", "l">>
kw_all == <<"a", "l", "l">>

\* ------------------------------------------------------------------------
\* ExternalApiConfig
\* ------------------------------------------------------------------------
\* the keys of ExternalApiConfig.bidding_zone_to_eic_code_map with their EIC codes
bidding_zone_to_eic_code_map ==
  [z \in {NO1, NO2, NO3, NO4, NO5, SE1, SE2, SE3, SE4, DK1, DK2, FI, NL, DE,
          FR, BE, AT, EE, LT, LV, PL} |->
     CASE z = NO1 -> "10YNO-1--------2" [] z = NO2 -> "10YNO-2--------T"
       [] z = NO3 -> "10YNO-3--------J" [] z = NO4 -> "10YNO-4--------9"
       [] z = NO5 -> "10Y1001A1001A48H" [] z = SE1 -> "10Y1001A1001A44P"
       [] z = SE2 -> "10Y1001A1001A45N" [] z = SE3 -> "10Y1001A1001A46L"
       [] z = SE4 -> "10Y1001A1001A47J" [] z = DK1 -> "10YDK-1--------W"
       [] z = DK2 -> "10YDK-2--------M" [] z = FI -> "10YFI-1--------U"
       [] z = NL -> "10YNL----------L" [] z = DE -> "10Y1001A1001A82H"
       [] z = FR -> "10YFR-RTE------C" [] z = BE -> "10YBE----------2"
       [] z = AT -> "10YAT-APG------L" [] z = EE -> "10Y1001A1001A39I"
       [] z = LT -> "10YLT-1001A0008Q" [] z = LV -> "10YLV-1001A00074"
       [] OTHER -> "10YPL-AREA-----S"]

\* the maximum-days-per-request accessor that fetch_day_ahead_prices calls
get_entsoe_max_days_per_request == MaxDaysBound

\* ------------------------------------------------------------------------
\* utils.get_valid_bidding_zones
\* ------------------------------------------------------------------------
\* bidding_zones_config without its "all" entry
bidding_zones_config ==
  [k \in {kw_norway, kw_denmark, kw_sweden, kw_nordics, kw_baltics, DE, kw_cwe, kw_nsl} |->
     CASE k = kw_norway -> {NO_1, NO_2, NO_3, NO_4, NO_5}
       [] k = kw_denmark -> {DK_1, DK_2}
       [] k = kw_sweden -> {SE_1, SE_2, SE_3, SE_4}
       [] k = kw_nordics -> {NO_1, NO_2, NO_3, NO_4, NO_5, DK_1, DK_2,
                             SE_1, SE_2, SE_3, SE_4, FI}
       [] k = kw_baltics -> {EE, LT, LV}
       [] k = DE -> {DE_LU}
       [] k = kw_cwe -> {DE_LU, AT, BE, FR, NL, PL}
       [] OTHER -> {NO_2_NSL}]

\* bidding_zones_config["all"]: the union of all the groups
all_bidding_zones == UNION {bidding_zones_config[k] : k \in DOMAIN bidding_zones_config}

\* the group table after "all" has been added
GroupZones(k) == IF k = kw_all THEN all_bidding_zones ELSE bidding_zones_config[k]

\* the keys the expansion loop walks over
expansion_keys == {kw_norway, kw_nordics, DE, kw_cwe, kw_all}

\* re.match(r'^(NO|DK|SE)(\d+)$', bz)
ShorthandMatch(bz) ==
  /\ Len(bz) >= 3
  /\ SubSeq(bz, 1, 2) \in {<<"N", "O">>, <<"D", "K">>, <<"S", "E">>}
  /\ \A i \in 3..Len(bz) : bz[i] \in Digits

\* f"{m.group(1)}_{int(m.group(2))}"
ShorthandZone(bz) == SubSeq(bz, 1, 2) \o <<"_">> \o IntStr(SubSeq(bz, 3, Len(bz)))

\* the list comprehension that splits every input token on commas
bidding_zone_input_split(bidding_zone_input) ==
  UNION {SeqRange(SplitComma(bidding_zone_input[i], <<>>)) : i \in 1..Len(bidding_zone_input)}

\* the working set without the intersection with the valid zones
use_bidding_zone_set_unfiltered(bidding_zone_input) ==
  LET s0 == bidding_zone_input_split(bidding_zone_input)
      s1 == s0 \cup {ShorthandZone(bz) : bz \in {u \in {Strip(Upper(t)) : t \in s0} : ShorthandMatch(u)}}
      s2 == IF DE \in s1 THEN s1 \cup {DE_LU} ELSE s1
  IN s2 \cup UNION {GroupZones(k) : k \in {key \in expansion_keys : key \in s2}}

\* the working set right before it is sorted into the returned list
use_bidding_zone_set(bidding_zone_input) ==
  LET s0 == bidding_zone_input_split(bidding_zone_input)
      s1 == s0 \cup {ShorthandZone(bz) : bz \in {u \in {Strip(Upper(t)) : t \in s0} : ShorthandMatch(u)}}
      s2 == IF DE \in s1 THEN s1 \cup {DE_LU} ELSE s1
      s3 == s2 \cup UNION {GroupZones(k) : k \in {key \in expansion_keys : key \in s2}}
  IN s3 \cap all_bidding_zones

get_valid_bidding_zones(bidding_zone_input) == SortedList(use_bidding_zone_set(bidding_zone_input))

\* ------------------------------------------------------------------------
\* Time
\* ------------------------------------------------------------------------
\* pd.date_range(..., freq='15min'): one slot is 15 minutes
MinutesPerSlot == 15
\* resample('60min'): an hour is 4 slots
SlotsPerHour == 60 \div MinutesPerSlot
\* timedelta(days=1) in slots
SlotsPerDay == 24 * SlotsPerHour
\* Europe/Oslo is UTC+1 on the modelled days
OsloOffsetSlots == SlotsPerHour

\* cet_tz.localize(datetime.strptime(d, "%Y-%m-%d")).astimezone(pytz.utc):
\* the UTC slot of local midnight of calendar day d
LocalMidnightUtc(d) == d * SlotsPerDay - OsloOffsetSlots

\* the Europe/Oslo calendar day a UTC slot falls on
LocalDayOf(t) == ((t + OsloOffsetSlots) + 100 * SlotsPerDay) \div SlotsPerDay - 100

\* datetime.weekday() of calendar day d (Monday = 0; day 0 is a Thursday)
Weekday(d) == (d + 3 + 700) % 7

Min2(a, b) == IF a < b THEN a ELSE b

\* ------------------------------------------------------------------------
\* Data frames: an index (a sequence of slots), the column labels in order,
\* and per column the values aligned with the index
\* ------------------------------------------------------------------------
\* a missing cell (prices and rates of the model are positive)
NaN == -1

\* pd.DataFrame()
EmptyFrame == [index |-> <<>>, columns |-> <<>>, data |-> [c \in {} |-> <<>>], tz |-> "", unit |-> ""]

\* pd.date_range(start, end, freq='15min', inclusive='left')
date_range_left(start, end) == [i \in 1..(IF end > start THEN end - start ELSE 0) |-> start + i - 1]

\* pd.DataFrame(index=datetime_index)
IndexFrame(idx) == [index |-> idx, columns |-> <<>>, data |-> [c \in {} |-> <<>>], tz |-> "UTC", unit |-> ""]

ColumnSet(df) == SeqRange(df.columns)

NaNs(n) == [i \in 1..n |-> NaN]

\* data_frame[label] = series: the series (a set of [timestamp, price_amount]
\* records with distinct timestamps) is aligned with the frame's index
SetColumn(df, label, series) ==
  LET col == [i \in 1..Len(df.index) |->
                IF \E p \in series : p.timestamp = df.index[i]
                THEN (CHOOSE p \in series : p.timestamp = df.index[i]).price_amount
                ELSE NaN]
  IN [df EXCEPT !.columns = IF label \in ColumnSet(df) THEN @ ELSE Append(@, label),
                !.data = [c \in ColumnSet(df) \cup {label} |-> IF c = label THEN col ELSE df.data[c]]]

\* Series.ffill(): a missing value takes the last value before it, if any
FillForward(col) ==
  LET f[i \in 1..Len(col)] == IF col[i] # NaN \/ i = 1 THEN col[i] ELSE f[i - 1]
  IN [i \in 1..Len(col) |-> f[i]]

\* no fill at all
ffill_none(df) == df

\* DataFrame.ffill()
ffill(df) == [df EXCEPT !.data = [c \in ColumnSet(df) |-> FillForward(df.data[c])]]

\* data_frame[sorted(data_frame.columns)]
SortColumns(df) == [df EXCEPT !.columns = SortedList(ColumnSet(df))]

\* no resampling: the 15-minute rows are kept
resample_none(df) == df

\* data_frame.resample('60min').ffill(): the hours from the first to the last
\* index entry, each with the row of the last index entry at or before it
resample_60min_ffill(df) ==
  IF df.index = <<>> THEN df
  ELSE LET n == Len(df.index)
           first == (df.index[1] + 100 * SlotsPerDay) \div SlotsPerHour
           last == (df.index[n] + 100 * SlotsPerDay) \div SlotsPerHour
           hours == [k \in 1..(last - first + 1) |->
                       (first + k - 1) * SlotsPerHour - 100 * SlotsPerDay]
           pos(h) == Cardinality({i \in 1..n : df.index[i] <= h})
       IN [df EXCEPT !.index = hours,
                     !.data = [c \in ColumnSet(df) |->
                                 [k \in 1..Len(hours) |->
                                    IF pos(hours[k]) = 0 THEN NaN ELSE df.data[c][pos(hours[k])]]]]

\* pd.concat([a, b]) along the rows: the column labels of a, then those of b
\* that a does not have; cells of a column a frame lacks are missing
concat(a, b) ==
  LET RECURSIVE NewLabels(_)
      NewLabels(s) == IF s = <<>> THEN <<>>
                      ELSE IF Head(s) \in ColumnSet(a) THEN NewLabels(Tail(s))
                      ELSE <<Head(s)>> \o NewLabels(Tail(s))
      cols == a.columns \o NewLabels(b.columns)
  IN [index |-> a.index \o b.index,
      columns |-> cols,
      data |-> [c \in SeqRange(cols) |->
                  (IF c \in ColumnSet(a) THEN a.data[c] ELSE NaNs(Len(a.index)))
                  \o (IF c \in ColumnSet(b) THEN b.data[c] ELSE NaNs(Len(b.index)))],
      tz |-> b.tz,
      unit |-> ""]

\* DataFrame.tz_convert('Europe/Oslo'): the instants stay, the zone changes
tz_convert_oslo(df) == [df EXCEPT !.tz = "Europe/Oslo"]

\* ------------------------------------------------------------------------
\* The ENTSO-E Transparency Platform (environment)
\* ------------------------------------------------------------------------
\* the day-ahead price of a zone for the hour that starts at UTC slot t;
\* consecutive hours repeat a value, as published series do
MarketPrice(zone, t) ==
  LET hour == (t + 100 * SlotsPerDay) \div SlotsPerHour
  IN 100 + 10 * ((hour \div 3) % 4) + (IF zone = NO1 THEN 0 ELSE Ord(zone[1]))

\* the price of a zone in the 15-minute auction for the quarter that starts at
\* UTC slot t; it differs from the hourly price of the same instant
QuarterPrice(zone, t) == MarketPrice(zone, t) + 1 + (t % SlotsPerHour)

\* what the platform may answer to one price request
EntsoeOutcomes == {"full", "sparse", "status_error", "timeout"}

\* the zones of the 10:15 auction of EXAA, whose result is published as a
\* PT15M series next to the PT60M series of the 12:00 auction
ExaaZones == {DE, AT}

\* the answer that holds both series for the same delivery days
QuarterOutcomes == {"mixed"}

\* the PT60M Periods of a 200 response: one per delivery day of
\* [periodStart, periodEnd); "sparse" leaves out a point that repeats the
\* value of the position before it
HourlyPeriods(zone, periodStart, periodEnd, outcome) ==
  {[start |-> d,
    resolution |-> 60,
    points |-> {[position |-> k, price_amount |-> MarketPrice(zone, d + (k - 1) * SlotsPerHour)] :
                  k \in {j \in 1..24 :
                           \/ outcome # "sparse"
                           \/ j = 1
                           \/ MarketPrice(zone, d + (j - 1) * SlotsPerHour)
                                # MarketPrice(zone, d + (j - 2) * SlotsPerHour)}}] :
     d \in {t \in periodStart..(periodEnd - 1) : (t - periodStart) % SlotsPerDay = 0}}

\* the PT15M Periods of a 200 response: one per delivery day, 96 points each
QuarterPeriods(zone, periodStart, periodEnd) ==
  {[start |-> d,
    resolution |-> 15,
    points |-> {[position |-> k, price_amount |-> QuarterPrice(zone, d + (k - 1))] :
                  k \in 1..SlotsPerDay}] :
     d \in {t \in periodStart..(periodEnd - 1) : (t - periodStart) % SlotsPerDay = 0}}

\* the answer with status 200 that holds no TimeSeries, Period or Point
EmptyOutcomes == {"no_points"}

\* the Periods of all TimeSeries of a 200 response
EntsoePeriods(zone, periodStart, periodEnd, outcome) ==
  IF outcome \in EmptyOutcomes THEN {}
  ELSE HourlyPeriods(zone, periodStart, periodEnd, outcome)
         \cup
       (IF outcome \in QuarterOutcomes THEN QuarterPeriods(zone, periodStart, periodEnd) ELSE {})

\* ------------------------------------------------------------------------
\* fetch_day_ahead_prices_api: parsing one response
\* ------------------------------------------------------------------------
\* the list `data`: one entry per Point of every Period of every TimeSeries
ParsePoints(periods) ==
  UNION {{[start_time |-> p.start, resolution |-> p.resolution,
           position |-> q.position, price_amount |-> q.price_amount] : q \in p.points} :
         p \in periods}

\* df = df[df['resolution'] == 'PT60M'], applied to the zone 'DE' only
FilterResolution(bidding_zone, data) ==
  IF bidding_zone = DE THEN {r \in data : r.resolution = 60} ELSE data

\* df['timestamp'] = start_time + (position - 1) * minutes of the resolution
PointTimestamp(r) == r.start_time + ((r.position - 1) * r.resolution) \div MinutesPerSlot

\* df = pd.DataFrame(data) has no columns: data is the empty list, and
\* df['resolution'] (for 'DE') or df['start_time'] raises KeyError
HasNoColumns(periods) == ParsePoints(periods) = {}

\* the index of df after set_index('timestamp') holds a label twice: two
\* rows of df have the same timestamp
HasDuplicateTimestamps(bidding_zone, periods) ==
  LET df == FilterResolution(bidding_zone, ParsePoints(periods))
  IN \E r1, r2 \in df : r1 # r2 /\ PointTimestamp(r1) = PointTimestamp(r2)

\* df.set_index('timestamp')['price_amount']
PriceSeries(bidding_zone, periods) ==
  {[timestamp |-> PointTimestamp(r), price_amount |-> r.price_amount] :
     r \in FilterResolution(bidding_zone, ParsePoints(periods))}

\* ------------------------------------------------------------------------
\* State
\* ------------------------------------------------------------------------
VARIABLES
  pc,                   \* the statement the program is at
  caller,               \* "cli": main; "lib": fetch_day_ahead_prices called directly;
                        \* "rates": fetch_conversion_rates called directly;
                        \* "zones": get_valid_bidding_zones called directly;
                        \* "dates": parse_date_reference or convert_date_range
                        \* called directly
  bidding_zone_input,   \* main: args.bidding_zone
  bidding_zone_list,    \* fetch_day_ahead_prices: the zones to query
  start_time,           \* start date (calendar day)
  end_time,             \* end date (calendar day)
  convert_to_nok,       \* fetch_day_ahead_prices: the conversion flag
  full_price_df,        \* fetch_day_ahead_prices: the table assembled so far
  eur_price_df,         \* full_price_df as it was before the conversion to NOK
  current_start_utc,    \* fetch_day_ahead_prices: start of the next chunk
  current_end_utc,      \* fetch_day_ahead_prices: end of the current chunk
  data_frame,           \* fetch_day_ahead_prices_api: the chunk's table
  bz_i,                 \* fetch_day_ahead_prices_api: position in bidding_zone_list
  api_calls,            \* the [start, end) of every call of fetch_day_ahead_prices_api
  requests_log,         \* every HTTP request issued, with the status it got
  prices,               \* what fetch_day_ahead_prices returned
  exception,            \* the exception that ended the run, "" if none
  holidays,             \* the weekdays for which Norges Bank publishes no rate
  start_datetime_query, \* fetch_conversion_rates: first day of the query
  attempt,              \* fetch_conversion_rates: probes that have failed
  exchange_rates,       \* what fetch_conversion_rates returned
  arg_start,            \* main: args.start; parse_date_reference: reference
  arg_end,              \* main: args.end
  today,                \* parse_date_reference: datetime.now(Europe/Oslo)
  parsed,               \* what parse_date_reference or convert_date_range returned
  output_file_path,     \* main: args.output ("", a path in a folder that exists or not)
  csv_written           \* main: prices.to_csv has been called

vars == <<pc, caller, bidding_zone_input, bidding_zone_list, start_time, end_time,
          convert_to_nok, full_price_df, eur_price_df, current_start_utc, current_end_utc,
          data_frame, bz_i, api_calls, requests_log, prices, exception, holidays,
          start_datetime_query, attempt, exchange_rates,
          arg_start, arg_end, today, parsed, output_file_path, csv_written>>

price_vars == <<full_price_df, eur_price_df, current_start_utc, current_end_utc,
                data_frame, bz_i, api_calls, prices>>

rate_vars == <<holidays, start_datetime_query, attempt, exchange_rates>>

\* the command line's date references and output path, and the current time
cli_vars == <<arg_start, arg_end, today, parsed, output_file_path, csv_written>>

input_vars == <<caller, bidding_zone_input, bidding_zone_list, start_time, end_time, convert_to_nok,
                cli_vars>>

\* a call that has not returned, a call that returned None, a returned table
NotReturned == [kind |-> "running", df |-> EmptyFrame]
ReturnedNone == [kind |-> "None", df |-> EmptyFrame]
ReturnedFrame(df) == [kind |-> "frame", df |-> df]

\* a date-reference call that has not returned
NotParsed == [kind |-> "running"]

NoSeries == [kind |-> "running", index |-> <<>>, values |-> <<>>]
NoneSeries == [kind |-> "None", index |-> <<>>, values |-> <<>>]

\* ------------------------------------------------------------------------
\* Inputs
\* ------------------------------------------------------------------------
\* the moment the modelled days are counted from: 2024-12-12, before 13:00
DayZero == [year |-> 2024, month |-> 12, day |-> 12, hour |-> 10]

\* a run that does not go through the date references and the output path
NoCliArgs ==
  /\ arg_start = <<>>
  /\ arg_end = <<>>
  /\ today = DayZero
  /\ output_file_path = ""

Days == 0..MaxDay

\* command lines: -a NO1 | -a FI | -a xx | -a norway | -a all
CliInputs == {<<NO1>>, <<FI>>, <<<<"x", "x">>>>, <<kw_norway>>, <<kw_all>>}

\* zone lists handed to fetch_day_ahead_prices directly
ZoneLists == {<<NO1>>, <<AT, FI>>, <<FI, AT>>}

InitCommon ==
  /\ full_price_df = EmptyFrame
  /\ eur_price_df = EmptyFrame
  /\ current_start_utc = 0
  /\ current_end_utc = 0
  /\ data_frame = EmptyFrame
  /\ bz_i = 0
  /\ api_calls = <<>>
  /\ requests_log = <<>>
  /\ prices = NotReturned
  /\ exception = ""
  /\ holidays = {}
  /\ start_datetime_query = 0
  /\ attempt = 0
  /\ exchange_rates = NoSeries
  /\ parsed = NotParsed
  /\ csv_written = FALSE

\* main has parsed its arguments and convert_date_range has returned
\* (start before end), or fetch_day_ahead_prices is called with any two dates
Init ==
  /\ InitCommon
  /\ NoCliArgs
  /\ start_time \in Days
  /\ end_time \in Days
  /\ convert_to_nok \in BOOLEAN
  /\ \/ /\ caller = "cli"
        /\ pc = "main"
        /\ start_time < end_time
        /\ bidding_zone_input \in CliInputs
        /\ bidding_zone_list = <<>>
     \/ /\ caller = "lib"
        /\ pc = "fetch_day_ahead_prices"
        /\ bidding_zone_input = <<>>
        /\ bidding_zone_list \in ZoneLists

\* ------------------------------------------------------------------------
\* entsoe_price_extract_cli.main: zone resolution and the early return
\* ------------------------------------------------------------------------
main ==
  /\ pc = "main"
  /\ LET bidding_zones == get_valid_bidding_zones(bidding_zone_input)
     IN IF Len(bidding_zones) = 0
        THEN /\ pc' = "done"
             /\ UNCHANGED bidding_zone_list
        ELSE /\ pc' = "fetch_day_ahead_prices"
             /\ bidding_zone_list' = bidding_zones
  /\ UNCHANGED <<caller, bidding_zone_input, start_time, end_time, convert_to_nok, cli_vars,
                 price_vars, rate_vars, requests_log, exception>>

\* ------------------------------------------------------------------------
\* core_functions.fetch_day_ahead_prices
\* ------------------------------------------------------------------------
start_dt_utc == LocalMidnightUtc(start_time)
end_dt_utc == LocalMidnightUtc(end_time)

\* timedelta(days=get_entsoe_max_days_per_request())
max_interval == get_entsoe_max_days_per_request * SlotsPerDay

\* the range check and the initialisation before the loop
fetch_day_ahead_prices_begin ==
  /\ pc = "fetch_day_ahead_prices"
  /\ IF end_dt_utc < start_dt_utc
     THEN /\ prices' = ReturnedNone
          /\ pc' = "done"
          /\ UNCHANGED <<full_price_df, current_start_utc>>
     ELSE /\ full_price_df' = EmptyFrame
          /\ current_start_utc' = start_dt_utc
          /\ pc' = "chunk_loop"
          /\ UNCHANGED prices
  /\ UNCHANGED <<input_vars, eur_price_df, current_end_utc, data_frame, bz_i, api_calls,
                 requests_log, exception, rate_vars>>

\* the loop condition
loop_condition == current_start_utc < end_dt_utc

\* the chunk end without the cap at the end of the range
next_chunk_end_uncapped == current_start_utc + max_interval

\* current_end_utc = min(current_start_utc + max_interval, end_dt_utc)
next_chunk_end == Min2(current_start_utc + max_interval, end_dt_utc)

\* one pass of the while loop up to the call of fetch_day_ahead_prices_api,
\* and that call up to its loop over the zones
fetch_day_ahead_prices_chunk ==
  /\ pc = "chunk_loop"
  /\ loop_condition
  /\ current_end_utc' = next_chunk_end
  /\ api_calls' = Append(api_calls, <<current_start_utc, current_end_utc'>>)
  /\ data_frame' = IndexFrame(date_range_left(current_start_utc, current_end_utc'))
  /\ bz_i' = 1
  /\ pc' = "zone_loop"
  /\ UNCHANGED <<input_vars, full_price_df, eur_price_df, current_start_utc, requests_log,
                 prices, exception, rate_vars>>

\* ------------------------------------------------------------------------
\* core_functions.fetch_day_ahead_prices_api
\* ------------------------------------------------------------------------
\* the status the caller sees for an outcome
StatusOf(outcome) ==
  CASE outcome = "timeout" -> "timeout"
    [] outcome = "status_error" -> "error"
    [] OTHER -> "200"

\* the answers a price request for a zone may get
ResponseOutcomes(zone) ==
  EntsoeOutcomes \cup EmptyOutcomes \cup (IF zone \in ExaaZones THEN QuarterOutcomes ELSE {})

\* a price request as logged: the parameters sent and how it ended
EntsoeRequest(zone, outcome) ==
  [api |-> "entsoe", zone |-> zone, domain |-> bidding_zone_to_eic_code_map[zone],
   startPeriod |-> current_start_utc, endPeriod |-> current_end_utc,
   status |-> StatusOf(outcome), outcome |-> outcome]

\* bidding_zone_to_eic_code_dict[bidding_zone] succeeds
HasEicCode(zone) == zone \in DOMAIN bidding_zone_to_eic_code_map

\* where the loop over the zones goes after a response with a status other than 200
AfterStatusError(i) == i + 1

\* one pass of the loop over the zones: the EIC lookup, the request, and the
\* handling of its response
fetch_day_ahead_prices_api_zone ==
  /\ pc = "zone_loop"
  /\ bz_i <= Len(bidding_zone_list)
  /\ LET bidding_zone == bidding_zone_list[bz_i]
     IN IF ~HasEicCode(bidding_zone)
        THEN /\ exception' = "KeyError"
             /\ pc' = "raised"
             /\ UNCHANGED <<requests_log, data_frame, bz_i>>
        ELSE \E outcome \in ResponseOutcomes(bidding_zone) :
               CASE outcome = "timeout" ->
                      /\ requests_log' = Append(requests_log, EntsoeRequest(bidding_zone, outcome))
                      /\ exception' = "Timeout"
                      /\ pc' = "raised"
                      /\ UNCHANGED <<data_frame, bz_i>>
                 [] outcome = "status_error" ->
                      /\ requests_log' = Append(requests_log, EntsoeRequest(bidding_zone, outcome))
                      /\ bz_i' = AfterStatusError(bz_i)
                      /\ UNCHANGED <<data_frame, exception, pc>>
                 [] OTHER ->
                      LET periods == EntsoePeriods(bidding_zone, current_start_utc,
                                                   current_end_utc, outcome)
                          series == PriceSeries(bidding_zone, periods)
                      IN /\ requests_log' = Append(requests_log, EntsoeRequest(bidding_zone, outcome))
                         /\ IF HasNoColumns(periods)
                            THEN /\ exception' = "KeyError"
                                 /\ pc' = "raised"
                                 /\ UNCHANGED <<data_frame, bz_i>>
                            ELSE IF HasDuplicateTimestamps(bidding_zone, periods)
                            THEN /\ exception' = "ValueError"
                                 /\ pc' = "raised"
                                 /\ UNCHANGED <<data_frame, bz_i>>
                            ELSE /\ data_frame' = SetColumn(data_frame, bidding_zone, series)
                                 /\ bz_i' = bz_i + 1
                                 /\ UNCHANGED <<exception, pc>>
  /\ UNCHANGED <<input_vars, full_price_df, eur_price_df, current_start_utc, current_end_utc,
                 api_calls, prices, rate_vars>>

\* what fetch_day_ahead_prices_api returns once every zone has been asked
ChunkResult(df) == resample_60min_ffill(SortColumns(ffill(df)))

\* the end of fetch_day_ahead_prices_api (None for a frame without rows, which
\* pd.concat drops), and the rest of the pass of the while loop: the
\* concatenation and the move to the next chunk
fetch_day_ahead_prices_api_return ==
  /\ pc = "zone_loop"
  /\ bz_i > Len(bidding_zone_list)
  /\ full_price_df' = IF Len(data_frame.index) = 0 THEN full_price_df
                      ELSE concat(full_price_df, ChunkResult(data_frame))
  /\ current_start_utc' = current_end_utc
  /\ pc' = "chunk_loop"
  /\ UNCHANGED <<input_vars, eur_price_df, current_end_utc, data_frame, bz_i, api_calls,
                 requests_log, prices, exception, rate_vars>>

\* full_price_df.attrs['unit'] = ...
WithUnit(df, unit) == [df EXCEPT !.unit = unit]

\* after the loop: the conversion of the index to Europe/Oslo, then either
\* the call of fetch_conversion_rates or the return in EUR/MWh
fetch_day_ahead_prices_after_loop ==
  /\ pc = "chunk_loop"
  /\ ~loop_condition
  /\ full_price_df' = tz_convert_oslo(full_price_df)
  /\ eur_price_df' = full_price_df'
  /\ IF convert_to_nok
     THEN /\ pc' = "fetch_conversion_rates"
          /\ UNCHANGED prices
     ELSE /\ prices' = ReturnedFrame(WithUnit(full_price_df', "EUR/MWh"))
          /\ pc' = "done"
  /\ UNCHANGED <<input_vars, current_start_utc, current_end_utc, data_frame, bz_i, api_calls,
                 requests_log, exception, rate_vars>>

\* ------------------------------------------------------------------------
\* Norges Bank (environment)
\* ------------------------------------------------------------------------
\* the sets of public holidays the bank may observe on the modelled days
HolidaySets == {{}, {1}}

\* the bank publishes a rate on business days only
Published(d) == Weekday(d) < 5 /\ d \notin holidays

\* the EUR to NOK rate of a business day
EurNok(d) == 11 + ((d + 699) % 3)

\* the observation dates of a 200 response for [startPeriod, endPeriod], in order
RECURSIVE ObservationDates(_, _)
ObservationDates(startPeriod, endPeriod) ==
  IF startPeriod > endPeriod THEN <<>>
  ELSE (IF Published(startPeriod) THEN <<startPeriod>> ELSE <<>>)
       \o ObservationDates(startPeriod + 1, endPeriod)

NorgesBankRequest(startPeriod, endPeriod, status) ==
  [api |-> "norges_bank", zone |-> <<>>, domain |-> "",
   startPeriod |-> startPeriod, endPeriod |-> endPeriod, status |-> status, outcome |-> status]

\* ------------------------------------------------------------------------
\* core_functions.fetch_conversion_rates
\* ------------------------------------------------------------------------
\* one probe more than the code allows
max_attempts_five == 4 + 1

\* max_attempts = 4
max_attempts == 4

\* where fetch_conversion_rates returns to
RatesReturn == IF caller = "rates" THEN "done" ELSE "convert"

\* the weekend adjustment of the start of the query
WeekendAdjusted(d) == IF Weekday(d) >= 5 THEN d - (Weekday(d) - 4) ELSE d

\* the range check and the weekend adjustment
fetch_conversion_rates_begin ==
  /\ pc = "fetch_conversion_rates"
  /\ \E h \in HolidaySets : holidays' = h
  /\ IF end_time < start_time
     THEN /\ exchange_rates' = NoneSeries
          /\ pc' = RatesReturn
          /\ UNCHANGED <<start_datetime_query, attempt>>
     ELSE /\ start_datetime_query' = WeekendAdjusted(start_time)
          /\ attempt' = 0
          /\ pc' = "probe"
          /\ UNCHANGED exchange_rates
  /\ UNCHANGED <<input_vars, price_vars, requests_log, exception>>

\* the day that probe number `attempt` (counted from 0) asks for
ProbeDay(query, n) == IF n > 0 THEN query - 1 ELSE query

\* one pass of the probing loop, and the return of None after the last failure
fetch_conversion_rates_probe ==
  /\ pc = "probe"
  /\ attempt < max_attempts
  /\ start_datetime_query' = ProbeDay(start_datetime_query, attempt)
  /\ \/ /\ Published(start_datetime_query')
        /\ requests_log' = Append(requests_log,
                             NorgesBankRequest(start_datetime_query', start_datetime_query', "200"))
        /\ pc' = "full_period"
        /\ UNCHANGED <<attempt, exchange_rates, exception>>
     \/ /\ requests_log' = Append(requests_log,
                             NorgesBankRequest(start_datetime_query', start_datetime_query', "error"))
        /\ attempt' = attempt + 1
        /\ IF attempt' = max_attempts
           THEN /\ exchange_rates' = NoneSeries
                /\ pc' = RatesReturn
           ELSE UNCHANGED <<exchange_rates, pc>>
        /\ UNCHANGED exception
     \/ /\ requests_log' = Append(requests_log,
                             NorgesBankRequest(start_datetime_query', start_datetime_query', "timeout"))
        /\ exception' = "Timeout"
        /\ pc' = "raised"
        /\ UNCHANGED <<attempt, exchange_rates>>
  /\ UNCHANGED <<input_vars, price_vars, holidays>>

\* pd.Series(index=pd.date_range(start, end, freq="D")) with the observations
\* of the response assigned by date
SeriesOfObservations(first, last, dates, rates) ==
  LET idx == [i \in 1..(IF last >= first THEN last - first + 1 ELSE 0) |-> first + i - 1]
  IN [kind |-> "series",
      index |-> idx,
      values |-> [i \in 1..Len(idx) |->
                    IF \E j \in 1..Len(dates) : dates[j] = idx[i]
                    THEN rates[CHOOSE j \in 1..Len(dates) :
                                 dates[j] = idx[i] /\ \A k \in 1..Len(dates) : dates[k] = idx[i] => k <= j]
                    ELSE NaN]]

\* exchange_rates.ffill()
FillSeries(sr) == [sr EXCEPT !.values = FillForward(sr.values)]

\* the series unsliced: the queried days before the requested start stay in
KeepDays_all(sr, first, last) == sr

\* exchange_rates[start_date:end_date]: the entries from start_date to end_date inclusive
RECURSIVE KeepDays(_, _, _)
KeepDays(sr, first, last) ==
  IF sr.index = <<>> THEN sr
  ELSE LET rest == KeepDays([sr EXCEPT !.index = Tail(@), !.values = Tail(@)], first, last)
       IN IF first <= Head(sr.index) /\ Head(sr.index) <= last
          THEN [rest EXCEPT !.index = <<Head(sr.index)>> \o @, !.values = <<Head(sr.values)>> \o @]
          ELSE rest

\* the series built from a 200 response to the request for the full period
RatesFromResponse(query, dates, rates) ==
  KeepDays(FillSeries(SeriesOfObservations(query, end_time, dates, rates)), start_time, end_time)

\* the shapes of the payload of a 200 response: complete, without "data",
\* without "dataSets", with an empty dataSets list, with a data set that lacks
\* the series
Payloads == {"complete", "no_data", "no_dataSets", "empty_dataSets", "no_series"}

\* a 200 response to the request for the full period, with its payload
FullPeriodResponse(payload) ==
  [NorgesBankRequest(start_datetime_query, end_time, "200") EXCEPT !.outcome = payload]

\* the "data" in ... and "dataSets" in ... test
HasDataSets(payload) == payload \notin {"no_data", "no_dataSets"}

\* what the unpacking raises: exchange_rates is read before it is bound when
\* dataSets is empty, and a data set without the series has no such key
UnpackError(payload) ==
  IF payload = "empty_dataSets" THEN "UnboundLocalError"
  ELSE IF payload = "no_series" THEN "KeyError"
  ELSE ""

\* the request for the full period and the unpacking of its response
fetch_conversion_rates_full_period ==
  /\ pc = "full_period"
  /\ \/ \E payload \in Payloads :
          /\ requests_log' = Append(requests_log, FullPeriodResponse(payload))
          /\ IF ~HasDataSets(payload)
             THEN /\ exchange_rates' = NoneSeries
                  /\ pc' = RatesReturn
                  /\ UNCHANGED exception
             ELSE IF UnpackError(payload) # ""
             THEN /\ exception' = UnpackError(payload)
                  /\ pc' = "raised"
                  /\ UNCHANGED exchange_rates
             ELSE /\ LET dates == ObservationDates(start_datetime_query, end_time)
                         rates == [j \in 1..Len(dates) |-> EurNok(dates[j])]
                     IN exchange_rates' = RatesFromResponse(start_datetime_query, dates, rates)
                  /\ pc' = RatesReturn
                  /\ UNCHANGED exception
     \/ /\ requests_log' = Append(requests_log,
                             NorgesBankRequest(start_datetime_query, end_time, "error"))
        /\ exchange_rates' = NoneSeries
        /\ pc' = RatesReturn
        /\ UNCHANGED exception
     \/ /\ requests_log' = Append(requests_log,
                             NorgesBankRequest(start_datetime_query, end_time, "timeout"))
        /\ exception' = "Timeout"
        /\ pc' = "raised"
        /\ UNCHANGED exchange_rates
  /\ UNCHANGED <<input_vars, price_vars, holidays, start_datetime_query, attempt>>

\* ------------------------------------------------------------------------
\* fetch_day_ahead_prices: the conversion to NOK/kWh
\* ------------------------------------------------------------------------
\* the slots of exchange_rates.resample('h').ffill(): every hour from the
\* first to the last day of the series
HourlySlots(sr) ==
  IF sr.index = <<>> THEN {}
  ELSE {t \in LocalMidnightUtc(sr.index[1])..LocalMidnightUtc(sr.index[Len(sr.index)]) :
          (t - LocalMidnightUtc(sr.index[1])) % SlotsPerHour = 0}

\* the first day of the series, whatever the hour
RateDayPosition_first(sr, t) == 1

\* the day whose rate an hour takes: the last day of the series that has begun
RateDayPosition(sr, t) ==
  CHOOSE i \in 1..Len(sr.index) :
    /\ LocalMidnightUtc(sr.index[i]) <= t
    /\ \A j \in 1..Len(sr.index) : LocalMidnightUtc(sr.index[j]) <= t => j <= i

\* exchange_rates.resample('h').ffill()
exchange_rates_hourly(sr) == [t \in HourlySlots(sr) |-> sr.values[RateDayPosition(sr, t)]]

\* one cell of full_price_df.mul(exchange_rates_hourly, axis=0) / 1000,
\* held in thousandths of a NOK/kWh (1100 is 1.1 NOK/kWh)
ConvertCell(price, rate) == IF price = NaN \/ rate = NaN THEN NaN ELSE price * rate

\* full_price_df.mul(exchange_rates_hourly, axis=0) / 1000
mul_rates(df, hourly) ==
  [df EXCEPT !.data = [c \in ColumnSet(df) |->
                         [i \in 1..Len(df.index) |-> ConvertCell(df.data[c][i], hourly[df.index[i]])]]]

\* the unit tag of the returned table
UnitTag(converted) == IF converted THEN "NOK/kWh" ELSE "EUR/MWh"

\* the statements after fetch_conversion_rates has returned
fetch_day_ahead_prices_convert ==
  /\ pc = "convert"
  /\ IF exchange_rates.kind = "None" \/ Len(exchange_rates.index) = 0
     THEN /\ prices' = ReturnedFrame(WithUnit(full_price_df, UnitTag(FALSE)))
          /\ pc' = "done"
          /\ UNCHANGED <<full_price_df, exception>>
     ELSE LET hourly == exchange_rates_hourly(exchange_rates)
          IN IF \E i \in 1..Len(full_price_df.index) : full_price_df.index[i] \notin DOMAIN hourly
             THEN /\ exception' = "KeyError"
                  /\ pc' = "raised"
                  /\ UNCHANGED <<full_price_df, prices>>
             ELSE /\ full_price_df' = mul_rates(full_price_df, hourly)
                  /\ prices' = ReturnedFrame(WithUnit(full_price_df', UnitTag(TRUE)))
                  /\ pc' = "done"
                  /\ UNCHANGED exception
  /\ UNCHANGED <<input_vars, eur_price_df, current_start_utc, current_end_utc, data_frame, bz_i,
                 api_calls, requests_log, rate_vars>>

\* ------------------------------------------------------------------------
\* Calendar (datetime)
\* ------------------------------------------------------------------------
IsLeap(y) == (y % 4 = 0 /\ y % 100 # 0) \/ y % 400 = 0

DaysInMonth(y, m) ==
  IF m = 2 THEN (IF IsLeap(y) THEN 29 ELSE 28)
  ELSE IF m \in {4, 6, 9, 11} THEN 30 ELSE 31

\* a year, month and day that datetime accepts
ValidDate(y, m, d) == y \in 1..9999 /\ m \in 1..12 /\ d \in 1..DaysInMonth(y, m)

\* the days of the years before year y
DaysBeforeYear(y) == 365 * (y - 1) + ((y - 1) \div 4) - ((y - 1) \div 100) + ((y - 1) \div 400)

\* the days of year y before month m
RECURSIVE DaysBeforeMonth(_, _)
DaysBeforeMonth(y, m) == IF m = 1 THEN 0 ELSE DaysBeforeMonth(y, m - 1) + DaysInMonth(y, m - 1)

\* date.toordinal()
ToOrdinal(dt) == DaysBeforeYear(dt.year) + DaysBeforeMonth(dt.year, dt.month) + dt.day

\* date.fromordinal(), the hour kept
FromOrdinal(n, hour) ==
  LET y == CHOOSE y \in (n \div 366)..((n \div 365) + 1) :
             DaysBeforeYear(y) < n /\ n <= DaysBeforeYear(y + 1)
      m == CHOOSE m \in 1..12 :
             /\ DaysBeforeMonth(y, m) < n - DaysBeforeYear(y)
             /\ n - DaysBeforeYear(y) <= DaysBeforeMonth(y, m) + DaysInMonth(y, m)
  IN [year |-> y, month |-> m, day |-> n - DaysBeforeYear(y) - DaysBeforeMonth(y, m), hour |-> hour]

\* dt + timedelta(days=k)
PlusDays(dt, k) == FromOrdinal(ToOrdinal(dt) + k, dt.hour)

\* the weekday with Sunday as 0
DateWeekday_sunday(dt) == ToOrdinal(dt) % 7

\* datetime.weekday(): Monday is 0
DateWeekday(dt) == (ToOrdinal(dt) + 6) % 7

\* ------------------------------------------------------------------------
\* utils.parse_date_reference
\* ------------------------------------------------------------------------
DigitSeq == <<"0", "1", "2", "3", "4", "5", "6", "7", "8", "9">>

DigitVal(c) == (CHOOSE i \in 1..10 : DigitSeq[i] = c) - 1

AllDigits(s) == \A i \in 1..Len(s) : s[i] \in Digits

\* int(s) for a string of decimal digits
RECURSIVE ToInt(_)
ToInt(s) == IF s = <<>> THEN 0 ELSE 10 * ToInt(SubSeq(s, 1, Len(s) - 1)) + DigitVal(s[Len(s)])

\* str(n) for n >= 0
RECURSIVE IntToStr(_)
IntToStr(n) == IF n < 10 THEN <<DigitSeq[n + 1]>> ELSE IntToStr(n \div 10) \o <<DigitSeq[(n % 10) + 1]>>

\* %m, %d: two digits, zero-padded
TwoDigits(n) == IF n < 10 THEN <<"0">> \o IntToStr(n) ELSE IntToStr(n)

\* strftime('%Y-%m-%d'); %Y is the year without padding (C library strftime)
strftime(dt) == IntToStr(dt.year) \o <<"-">> \o TwoDigits(dt.month) \o <<"-">> \o TwoDigits(dt.day)

\* a returned date string, a raised ValueError
Returned(value) == [kind |-> "returned", value |-> value]
Raised(message) == [kind |-> "raised", error |-> "ValueError", message |-> message]

\* the characters of s at the positions in ps are digits
DigitsAt(s, ps) == \A i \in ps : s[i] \in Digits

\* which of the four patterns of valid_formats the reference matches, 0 if none
valid_formats(reference) ==
  IF Len(reference) = 4 /\ DigitsAt(reference, 1..4) THEN 1
  ELSE IF Len(reference) = 7 /\ DigitsAt(reference, {1, 2, 3, 4, 6, 7}) /\ reference[5] = "-" THEN 2
  ELSE IF /\ Len(reference) = 10
          /\ DigitsAt(reference, {1, 2, 3, 4, 6, 7, 9, 10})
          /\ reference[5] = "-" /\ reference[8] = "-" THEN 3
  ELSE IF /\ Len(reference) = 16
          /\ DigitsAt(reference, {1, 2, 3, 4, 6, 7, 9, 10, 12, 13, 15, 16})
          /\ reference[5] = "-" /\ reference[8] = "-"
          /\ reference[11] = " " /\ reference[14] = ":" THEN 4
  ELSE 0

\* datetime.strptime(reference, fmt).strftime('%Y-%m-%d') for the pattern that matched
strptime_strftime(reference, pattern) ==
  LET y == ToInt(SubSeq(reference, 1, 4))
      m == IF pattern >= 2 THEN ToInt(SubSeq(reference, 6, 7)) ELSE 1
      d == IF pattern >= 3 THEN ToInt(SubSeq(reference, 9, 10)) ELSE 1
      hh == IF pattern = 4 THEN ToInt(SubSeq(reference, 12, 13)) ELSE 0
      mm == IF pattern = 4 THEN ToInt(SubSeq(reference, 15, 16)) ELSE 0
  IN IF ValidDate(y, m, d) /\ hh <= 23 /\ mm <= 59
     THEN Returned(strftime([year |-> y, month |-> m, day |-> d, hour |-> hh]))
     ELSE Raised("strptime")

\* str.startswith
StartsWith(s, prefix) == Len(s) >= Len(prefix) /\ SubSeq(s, 1, Len(prefix)) = prefix

LAST_SDAC == <<"L", "A", "S", "T", "_", "S", "D", "A", "C">>
DAY == <<"D", "A", "Y">>
MONTH == <<"M", "O", "N", "T", "H">>
WEEK == <<"W", "E", "E", "K">>
YEAR == <<"Y", "E", "A", "R">>

\* no date: what a failed datetime.replace leaves
NoDate == [year |-> 0, month |-> 0, day |-> 0, hour |-> 0]

\* base_date.replace(year=y, month=m): ValueError when the day does not exist
Replace(dt, y, m) ==
  IF dt # NoDate /\ ValidDate(y, m, dt.day) THEN [dt EXCEPT !.year = y, !.month = m] ELSE NoDate

\* the month loop: one calendar month per pass, forward or backward
RECURSIVE StepMonths(_, _, _)
StepMonths(dt, sign, n) ==
  IF n = 0 \/ dt = NoDate THEN dt
  ELSE StepMonths(
         IF sign = 1
         THEN (IF dt.month = 12 THEN Replace(dt, dt.year + 1, 1) ELSE Replace(dt, dt.year, dt.month + 1))
         ELSE (IF dt.month = 1 THEN Replace(dt, dt.year - 1, 12) ELSE Replace(dt, dt.year, dt.month - 1)),
         sign, n - 1)

\* the base date of an anchor; NoDate for a reference that starts with no anchor
base_date(reference, now) ==
  IF StartsWith(reference, DAY) THEN now
  ELSE IF StartsWith(reference, MONTH) THEN [now EXCEPT !.day = 1]
  ELSE IF StartsWith(reference, WEEK) THEN PlusDays(now, 0 - DateWeekday(now))
  ELSE IF StartsWith(reference, YEAR) THEN [now EXCEPT !.month = 1, !.day = 1]
  ELSE NoDate

\* re.split(r'(\+|-)', reference)[-1]: the text after the last sign
RECURSIVE increment(_)
increment(reference) ==
  IF reference = <<>> THEN <<>>
  ELSE IF reference[Len(reference)] \in {"+", "-"} THEN <<>>
  ELSE Append(increment(SubSeq(reference, 1, Len(reference) - 1)), reference[Len(reference)])

\* 1 if '+' in reference else -1
sign(reference) == IF "+" \in SeqRange(reference) THEN 1 ELSE -1

\* the increment applied to the base date; the result as a date string
apply_increment(reference, base) ==
  LET inc == increment(reference)
      unit == IF inc = <<>> THEN "" ELSE inc[Len(inc)]
      digits == IF inc = <<>> THEN <<>> ELSE SubSeq(inc, 1, Len(inc) - 1)
      n == IF digits = <<>> THEN 1 ELSE ToInt(digits)
  IN IF unit \notin {"D", "W", "M", "Y"} THEN Returned(strftime(base))
     ELSE IF ~AllDigits(digits) THEN Raised("int")
     ELSE IF unit = "D" THEN Returned(strftime(PlusDays(base, n * sign(reference))))
     ELSE IF unit = "W" THEN Returned(strftime(PlusDays(base, 7 * n * sign(reference))))
     ELSE LET moved == IF unit = "M" THEN StepMonths(base, sign(reference), n)
                       ELSE Replace(base, base.year + n * sign(reference), base.month)
          IN IF moved = NoDate THEN Raised("day is out of range for month")
             ELSE Returned(strftime(moved))

parse_date_reference(reference, now) ==
  IF valid_formats(reference) # 0 THEN strptime_strftime(reference, valid_formats(reference))
  ELSE IF reference = LAST_SDAC
  THEN Returned(strftime(PlusDays(now, IF now.hour < 13 THEN 1 ELSE 2)))
  ELSE IF base_date(reference, now) = NoDate THEN Raised("Invalid date reference")
  ELSE IF "+" \in SeqRange(reference) \/ "-" \in SeqRange(reference)
  THEN apply_increment(reference, base_date(reference, now))
  ELSE Returned(strftime(base_date(reference, now)))

\* ------------------------------------------------------------------------
\* utils.convert_date_range
\* ------------------------------------------------------------------------
\* datetime.strptime(date_string, '%Y-%m-%d'): %Y takes exactly four digits
strptime_date(date_string) ==
  IF valid_formats(date_string) = 3
  THEN [year |-> ToInt(SubSeq(date_string, 1, 4)), month |-> ToInt(SubSeq(date_string, 6, 7)),
        day |-> ToInt(SubSeq(date_string, 9, 10)), hour |-> 0]
  ELSE NoDate

\* start and end are the same day
NotBefore_same_day_allowed(start_date_obj, end_date_obj) ==
  ToOrdinal(start_date_obj) > ToOrdinal(end_date_obj)

\* start_date_obj >= end_date_obj
NotBefore(start_date_obj, end_date_obj) == ToOrdinal(start_date_obj) >= ToOrdinal(end_date_obj)

convert_date_range(start, end, now) ==
  LET start_date == parse_date_reference(start, now)
      end_date == parse_date_reference(end, now)
  IN IF start_date.kind = "raised" THEN start_date
     ELSE IF end_date.kind = "raised" THEN end_date
     ELSE LET start_date_obj == strptime_date(start_date.value)
              end_date_obj == strptime_date(end_date.value)
          IN IF start_date_obj = NoDate \/ end_date_obj = NoDate THEN Raised("strptime")
             ELSE IF NotBefore(start_date_obj, end_date_obj)
             THEN Raised("The start date must be before the end date and at least one day apart.")
             ELSE Returned(<<start_date.value, end_date.value>>)

\* ------------------------------------------------------------------------
\* Specifications
\* ------------------------------------------------------------------------
\* a run of the command line tool or of a direct call of fetch_day_ahead_prices
Next ==
  \/ main
  \/ fetch_day_ahead_prices_begin
  \/ fetch_day_ahead_prices_chunk
  \/ fetch_day_ahead_prices_api_zone
  \/ fetch_day_ahead_prices_api_return
  \/ fetch_day_ahead_prices_after_loop
  \/ fetch_conversion_rates_begin
  \/ fetch_conversion_rates_probe
  \/ fetch_conversion_rates_full_period
  \/ fetch_day_ahead_prices_convert

Spec == Init /\ [][Next]_vars

\* a direct call of fetch_conversion_rates(start_time, end_time)
InitRates ==
  /\ InitCommon
  /\ NoCliArgs
  /\ caller = "rates"
  /\ pc = "fetch_conversion_rates"
  /\ start_time \in Days
  /\ end_time \in Days
  /\ convert_to_nok = FALSE
  /\ bidding_zone_input = <<>>
  /\ bidding_zone_list = <<>>

NextRates ==
  \/ fetch_conversion_rates_begin
  \/ fetch_conversion_rates_probe
  \/ fetch_conversion_rates_full_period

SpecRates == InitRates /\ [][NextRates]_vars

\* the largest count N written in an offset
MaxCount == 2

\* the months of 2024 the current day is drawn from: a 31-day month, the leap
\* February, the month after it, and the last month of the year
TodayMonths == {1, 2, 3, 12}

\* the hours the current time is drawn from: the last before 13:00 and 13:00
TodayHours == {12, 13}

Todays ==
  {dt \in {[year |-> 2024, month |-> m, day |-> d, hour |-> h] :
             m \in TodayMonths, d \in 1..31, h \in TodayHours} :
     ValidDate(dt.year, dt.month, dt.day)}

\* absolute references, some of them no dates
AbsoluteReferences ==
  {<<"2", "0", "2", "4">>,
   <<"2", "0", "2", "4", "-", "0", "2">>,
   <<"2", "0", "2", "4", "-", "0", "2", "-", "2", "9">>,
   <<"2", "0", "2", "4", "-", "1", "2", "-", "3", "1", " ", "2", "3", ":", "5", "9">>,
   <<"2", "0", "2", "4", "-", "1", "3">>,
   <<"2", "0", "2", "3", "-", "0", "2", "-", "2", "9">>}

Anchors == {DAY, WEEK, MONTH, YEAR, LAST_SDAC}

\* the count of an offset: omitted, or 1..MaxCount
Counts == {<<>>} \cup {IntToStr(n) : n \in 1..MaxCount}

OffsetReferences ==
  {a \o <<s>> \o c \o <<u>> : a \in Anchors, s \in {"+", "-"}, c \in Counts, u \in {"D", "W", "M", "Y"}}

\* references of no accepted form
OtherReferences ==
  {<<>>, <<"x", "x">>, <<"d", "a", "y">>, DAY \o <<"S">>, MONTH \o <<"L", "Y">>,
   DAY \o <<"+", "2", "X">>, DAY \o <<"+", "x", "D">>, DAY \o <<"+">>,
   <<"2", "0", "2", "4", "-", "1">>}

References == AbsoluteReferences \cup Anchors \cup OffsetReferences \cup OtherReferences

\* the references handed to convert_date_range
RangeReferences ==
  {DAY, LAST_SDAC, DAY \o <<"+", "D">>, DAY \o <<"-", "2", "D">>, MONTH, <<"x", "x">>,
   <<"2", "0", "2", "4", "-", "0", "2", "-", "2", "9">>,
   <<"2", "0", "2", "4", "-", "0", "3", "-", "0", "1">>}

\* a direct call of parse_date_reference(arg_start) or of
\* convert_date_range(arg_start, arg_end), at any of the current times
InitDates ==
  /\ InitCommon
  /\ caller = "dates"
  /\ today \in Todays
  /\ \/ /\ pc = "parse_date_reference"
        /\ arg_start \in References
        /\ arg_end = <<>>
     \/ /\ pc = "convert_date_range"
        /\ arg_start \in RangeReferences
        /\ arg_end \in RangeReferences
  /\ output_file_path = ""
  /\ bidding_zone_input = <<>>
  /\ bidding_zone_list = <<>>
  /\ start_time = 0
  /\ end_time = 0
  /\ convert_to_nok = FALSE

\* what the call leaves alone
date_call_frame ==
  <<caller, bidding_zone_input, bidding_zone_list, start_time, end_time, convert_to_nok,
    arg_start, arg_end, today, output_file_path, csv_written, price_vars, rate_vars, requests_log>>

parse_date_reference_call ==
  /\ pc = "parse_date_reference"
  /\ parsed' = parse_date_reference(arg_start, today)
  /\ pc' = IF parsed'.kind = "raised" THEN "raised" ELSE "done"
  /\ exception' = IF parsed'.kind = "raised" THEN "ValueError" ELSE ""
  /\ UNCHANGED date_call_frame

convert_date_range_call ==
  /\ pc = "convert_date_range"
  /\ caller = "dates"
  /\ parsed' = convert_date_range(arg_start, arg_end, today)
  /\ pc' = IF parsed'.kind = "raised" THEN "raised" ELSE "done"
  /\ exception' = IF parsed'.kind = "raised" THEN "ValueError" ELSE ""
  /\ UNCHANGED date_call_frame

NextDates ==
  \/ parse_date_reference_call
  \/ convert_date_range_call

SpecDates == InitDates /\ [][NextDates]_vars

\* the day of the model a returned date string names: days from 2024-12-12
DayIndex(value) == ToOrdinal(strptime_date(value)) - ToOrdinal(DayZero)

\* -s and -e of the command line: references that resolve, and one that does not
CliReferences ==
  {DAY, DAY \o <<"+", "D">>, DAY \o <<"+", "2", "D">>, LAST_SDAC,
   <<"2", "0", "2", "4", "-", "1", "2", "-", "1", "2">>, <<"x", "x">>}

\* -o of the command line: no file, a path in a folder that exists, a path in
\* a folder that does not
OutputPaths == {"", "folder_exists", "folder_missing"}

\* a run of the command line tool from the parsed arguments on, on
\* 2024-12-12 before or after 13:00
InitCli ==
  /\ InitCommon
  /\ caller = "cli"
  /\ pc = "convert_date_range"
  /\ arg_start \in CliReferences
  /\ arg_end \in CliReferences
  /\ today \in {DayZero, [DayZero EXCEPT !.hour = 14]}
  /\ output_file_path \in OutputPaths
  /\ bidding_zone_input \in CliInputs
  /\ bidding_zone_list = <<>>
  /\ start_time = 0
  /\ end_time = 0
  /\ convert_to_nok \in BOOLEAN

\* main, line 62: the date references are resolved; an error is not caught
main_convert_date_range ==
  /\ pc = "convert_date_range"
  /\ caller = "cli"
  /\ parsed' = convert_date_range(arg_start, arg_end, today)
  /\ IF parsed'.kind = "raised"
     THEN /\ pc' = "raised"
          /\ exception' = "ValueError"
          /\ UNCHANGED <<start_time, end_time>>
     ELSE /\ pc' = "main"
          /\ start_time' = DayIndex(parsed'.value[1])
          /\ end_time' = DayIndex(parsed'.value[2])
          /\ UNCHANGED exception
  /\ UNCHANGED <<caller, bidding_zone_input, bidding_zone_list, convert_to_nok, arg_start, arg_end,
                 today, output_file_path, csv_written, price_vars, rate_vars, requests_log>>

\* os.path.exists(os.path.dirname(output_file_path))
FolderExists(path) == path = "folder_exists"

\* main, lines 84-89: the prices are written when a path is given and its
\* folder exists; otherwise a warning is logged
main_output ==
  /\ pc = "done"
  /\ caller = "cli"
  /\ prices.kind = "frame"
  /\ csv_written' = (output_file_path # "" /\ FolderExists(output_file_path))
  /\ pc' = "returned"
  /\ UNCHANGED <<caller, bidding_zone_input, bidding_zone_list, start_time, end_time, convert_to_nok,
                 arg_start, arg_end, today, parsed, output_file_path, price_vars, rate_vars,
                 requests_log, exception>>

NextCli ==
  \/ main_convert_date_range
  \/ main_output
  \/ Next

SpecCli == InitCli /\ [][NextCli]_vars

\* calls of fetch_day_ahead_prices for zones of the 10:15 auction and others
SeriesZoneLists == {<<DE>>, <<AT>>, <<FI>>, <<DE, FI>>, <<AT, DE>>}

InitSeries ==
  /\ InitCommon
  /\ NoCliArgs
  /\ caller = "lib"
  /\ pc = "fetch_day_ahead_prices"
  /\ start_time \in Days
  /\ end_time \in Days
  /\ convert_to_nok = FALSE
  /\ bidding_zone_input = <<>>
  /\ bidding_zone_list \in SeriesZoneLists

NextSeries ==
  \/ fetch_day_ahead_prices_begin
  \/ fetch_day_ahead_prices_chunk
  \/ fetch_day_ahead_prices_api_zone
  \/ fetch_day_ahead_prices_api_return
  \/ fetch_day_ahead_prices_after_loop

SpecSeries == InitSeries /\ [][NextSeries]_vars

\* the longest token list handed to get_valid_bidding_zones
MaxTokens == 2

\* tokens: group keywords, zone names, shorthands in several letter cases,
\* shorthands of zones that do not exist, tokens with blanks or commas, and
\* tokens that name nothing
ZoneTokens ==
  {kw_norway, kw_denmark, kw_sweden, kw_nordics, kw_baltics, DE, kw_cwe, kw_nsl, kw_all,
   FI, NO_1, DE_LU, NO_2_NSL,
   NO2, <<"n", "o", "2">>, <<"N", "o", "2">>, <<"d", "k", "1">>, <<"s", "e", "4">>,
   <<" ", "n", "o", "3", " ">>, <<"N", "O", "0", "5">>,
   <<"N", "O", "9">>, <<"s", "e", "5">>, <<"D", "K", "0">>,
   <<"N", "O", "2", ",", "F", "I">>, <<"P", "L", ",", "a", "l", "l">>,
   <<"x", "x">>, <<"d", "e">>, <<"N", "O">>, <<>>}

ZoneInputs == UNION {[1..n -> ZoneTokens] : n \in 0..MaxTokens}

\* a direct call of get_valid_bidding_zones(bidding_zone_input)
InitZones ==
  /\ InitCommon
  /\ NoCliArgs
  /\ caller = "zones"
  /\ pc = "get_valid_bidding_zones"
  /\ bidding_zone_input \in ZoneInputs
  /\ bidding_zone_list = <<>>
  /\ start_time = 0
  /\ end_time = 0
  /\ convert_to_nok = FALSE

\* the call and its return value
get_valid_bidding_zones_call ==
  /\ pc = "get_valid_bidding_zones"
  /\ bidding_zone_list' = get_valid_bidding_zones(bidding_zone_input)
  /\ pc' = "done"
  /\ UNCHANGED <<caller, bidding_zone_input, start_time, end_time, convert_to_nok, cli_vars,
                 price_vars, rate_vars, requests_log, exception>>

NextZones == get_valid_bidding_zones_call

SpecZones == InitZones /\ [][NextZones]_vars

\* ------------------------------------------------------------------------
\* Properties
\* ------------------------------------------------------------------------
\* the requests sent to one API, in the order they were sent
RECURSIVE RequestsTo(_, _)
RequestsTo(api, log) ==
  IF log = <<>> THEN <<>>
  ELSE (IF Head(log).api = api THEN <<Head(log)>> ELSE <<>>) \o RequestsTo(api, Tail(log))

\* C1: every zone the resolver hands to the price fetcher has an EIC code in
\* bidding_zone_to_eic_code_map, so the request of each resolved zone can be
\* built and the EIC lookup never fails.
C1_ResolvedZonesHaveEicCode ==
  caller = "cli" =>
    /\ \A i \in 1..Len(bidding_zone_list) : HasEicCode(bidding_zone_list[i])
    /\ exception # "KeyError"

\* the while loop of fetch_day_ahead_prices has been left
LoopDone ==
  \/ pc \in {"fetch_conversion_rates", "probe", "full_period", "convert"}
  \/ prices.kind = "frame"

\* every price request so far was answered with status 200
AllRequestsSucceeded ==
  \A i \in 1..Len(requests_log) : requests_log[i].api = "entsoe" => requests_log[i].status = "200"

\* the hours of [start, end), each once, in increasing order
HourlyGrid(start, end) ==
  [k \in 1..((end - start) \div SlotsPerHour) |-> start + (k - 1) * SlotsPerHour]

\* C2: for start < end the per-chunk fetch is called on consecutive intervals
\* [s_i, e_i), in time order, with s_1 = start, s_(i+1) = e_i, 0 < e_i - s_i <=
\* maximum and e_i <= end (so there are at most end - start calls and the loop
\* ends), and the last e_i = end once the loop is left; when every request
\* succeeded, the index of the returned table is every timestamp of the
\* table's (hourly) grid in [start, end), each once, strictly increasing.
C2_ChunksConsecutiveAndComplete ==
  start_time < end_time =>
    /\ \A i \in 1..Len(api_calls) :
         /\ api_calls[i][1] < api_calls[i][2]
         /\ api_calls[i][2] - api_calls[i][1] <= max_interval
         /\ api_calls[i][2] <= end_dt_utc
         /\ api_calls[i][1] = IF i = 1 THEN start_dt_utc ELSE api_calls[i - 1][2]
    /\ Len(api_calls) <= end_time - start_time
    /\ LoopDone => /\ Len(api_calls) >= 1
                   /\ api_calls[Len(api_calls)][2] = end_dt_utc
    /\ (prices.kind = "frame" /\ AllRequestsSucceeded) =>
         prices.df.index = HourlyGrid(start_dt_utc, end_dt_utc)

\* a range of more than one chunk was fetched for two zones without a failed request
C2_Witness ==
  /\ start_time < end_time
  /\ prices.kind = "frame"
  /\ Len(api_calls) >= 2
  /\ Len(bidding_zone_list) = 2
  /\ AllRequestsSucceeded

\* the price requests of the chunk [s, e), in the order they were sent
ChunkRequests(s, e) ==
  LET RECURSIVE Pick(_)
      Pick(log) ==
        IF log = <<>> THEN <<>>
        ELSE (IF Head(log).startPeriod = s /\ Head(log).endPeriod = e THEN <<Head(log)>> ELSE <<>>)
             \o Pick(Tail(log))
  IN Pick(RequestsTo("entsoe", requests_log))

\* the positions of the rows of a frame whose timestamp lies in [s, e)
RowsIn(df, s, e) == {i \in 1..Len(df.index) : s <= df.index[i] /\ df.index[i] < e}

\* Within a chunk one request is sent per zone, in list order, none twice and
\* none left out; a zone has a column in the chunk's table exactly if its
\* request got status 200; and once the chunk has been returned, its rows
\* hold the published price for the zones that succeeded and nothing for the
\* zones that failed.
C3_OneRequestPerZone ==
  /\ pc = "zone_loop" =>
       LET reqs == ChunkRequests(current_start_utc, current_end_utc)
       IN /\ Len(reqs) = bz_i - 1
          /\ \A k \in 1..Len(reqs) : reqs[k].zone = bidding_zone_list[k]
          /\ ColumnSet(data_frame) = {reqs[k].zone : k \in {j \in 1..Len(reqs) : reqs[j].status = "200"}}
  /\ (pc = "chunk_loop" /\ Len(api_calls) >= 1) =>
       LET s == api_calls[Len(api_calls)][1]
           e == api_calls[Len(api_calls)][2]
           reqs == ChunkRequests(s, e)
       IN /\ Len(reqs) = Len(bidding_zone_list)
          /\ \A k \in 1..Len(reqs) :
               /\ reqs[k].zone = bidding_zone_list[k]
               /\ \A i \in RowsIn(full_price_df, s, e) :
                    IF reqs[k].status = "200"
                    THEN /\ reqs[k].zone \in ColumnSet(full_price_df)
                         /\ full_price_df.data[reqs[k].zone][i]
                              = MarketPrice(reqs[k].zone, full_price_df.index[i])
                    ELSE \/ reqs[k].zone \notin ColumnSet(full_price_df)
                         \/ full_price_df.data[reqs[k].zone][i] = NaN

\* no price request that ended in one of the given ways has aborted the fetch
NoAbortAfter(statuses) ==
  \A i \in 1..Len(requests_log) :
    (requests_log[i].api = "entsoe" /\ requests_log[i].status \in statuses) =>
      ~(pc = "raised" /\ exception # "KeyError" /\ i = Len(requests_log))

\* C3 as stated: a price request that fails, by a status other than 200 or by
\* a timeout, is not retried and does not abort the fetch of the chunk.
C3_FailedRequestNeverAborts ==
  /\ C3_OneRequestPerZone
  /\ NoAbortAfter({"error", "timeout"})

\* What the code does about C3: a price request answered with a status other
\* than 200 is not retried and does not abort the fetch of the chunk; a timeout
\* is not retried either, but it raises out of the fetch, which returns no table.
C3_StatusErrorSkipsZoneTimeoutRaises ==
  /\ C3_OneRequestPerZone
  /\ NoAbortAfter({"error"})
  /\ \A i \in 1..Len(requests_log) :
       (requests_log[i].api = "entsoe" /\ requests_log[i].status = "timeout") =>
         /\ i = Len(requests_log)
         /\ pc = "raised"
         /\ exception = "Timeout"
         /\ prices.kind = "running"

\* a chunk was returned in which the first zone's request got a status other
\* than 200 and the second zone's request succeeded
C3_Witness ==
  /\ pc = "chunk_loop"
  /\ Len(api_calls) >= 1
  /\ LET reqs == ChunkRequests(api_calls[Len(api_calls)][1], api_calls[Len(api_calls)][2])
     IN /\ Len(reqs) = 2
        /\ reqs[1].status = "error"
        /\ reqs[2].status = "200"
        /\ reqs[2].zone \in ColumnSet(full_price_df)
        /\ reqs[1].zone \notin ColumnSet(full_price_df)

\* the zones whose request got status 200 in at least one chunk
ZonesWithData ==
  {requests_log[i].zone : i \in {j \in 1..Len(requests_log) :
                                   requests_log[j].api = "entsoe" /\ requests_log[j].status = "200"}}

\* C4: fetch_day_ahead_prices returns None whenever the end date is not after
\* the start date, and whenever no request of any chunk yielded data.
C4_NoneWhenRangeInvalidOrNoData ==
  (prices.kind # "running" /\ (end_time <= start_time \/ ZonesWithData = {})) =>
    prices.kind = "None"

\* C5 as stated: no cell of a returned table is missing: where a zone
\* published no point, its column carries the value the zone published last
\* before, also across the chunks of the range.
C5_NoMissingCell ==
  prices.kind = "frame" =>
    \A c \in ColumnSet(eur_price_df) : \A i \in 1..Len(eur_price_df.index) :
      /\ eur_price_df.data[c][i] # NaN
      /\ eur_price_df.data[c][i] = MarketPrice(c, eur_price_df.index[i])

\* the points a zone published in the response to a logged request
PublishedPoints(req) ==
  PriceSeries(req.zone, EntsoePeriods(req.zone, req.startPeriod, req.endPeriod, req.outcome))

\* the value published last at or before t among the given points, if any
LastPublished(points, t) ==
  LET before == {p \in points : p.timestamp <= t}
  IN IF before = {} THEN NaN
     ELSE (CHOOSE p \in before : \A q \in before : q.timestamp <= p.timestamp).price_amount

\* C5 as amended: in the rows of a chunk in which the zone's request succeeded,
\* every cell from the zone's first published point of that chunk on is
\* non-missing and carries the value the zone published last at or before that
\* timestamp in that chunk; the fill is done per chunk, so in the rows of a chunk
\* in which the zone's request failed the zone's column, if another chunk
\* gave it one, is missing.
C5_FilledWithinSuccessfulChunk ==
  prices.kind = "frame" =>
    \A n \in 1..Len(api_calls) :
      LET s == api_calls[n][1]
          e == api_calls[n][2]
          reqs == ChunkRequests(s, e)
          rows == RowsIn(eur_price_df, s, e)
      IN \A k \in 1..Len(reqs) :
           LET points == PublishedPoints(reqs[k])
           IN IF reqs[k].status = "200"
              THEN /\ reqs[k].zone \in ColumnSet(eur_price_df)
                   /\ \A i \in rows :
                        /\ eur_price_df.data[reqs[k].zone][i]
                             = LastPublished(points, eur_price_df.index[i])
                        /\ eur_price_df.data[reqs[k].zone][i] # NaN
              ELSE reqs[k].zone \in ColumnSet(eur_price_df) =>
                     \A i \in rows : eur_price_df.data[reqs[k].zone][i] = NaN

\* a table of two chunks was returned for a zone that left out repeated values
\* in one chunk and whose request failed in the other
C5_Witness ==
  /\ prices.kind = "frame"
  /\ Len(api_calls) = 2
  /\ \E i, j \in 1..Len(requests_log) :
       /\ requests_log[i].api = "entsoe"
       /\ requests_log[j].api = "entsoe"
       /\ requests_log[i].zone = requests_log[j].zone
       /\ requests_log[i].outcome = "sparse"
       /\ requests_log[j].status = "error"
       /\ \E r \in 1..Len(eur_price_df.index) :
            /\ eur_price_df.data[requests_log[i].zone][r] # NaN
            /\ \A p \in PublishedPoints(requests_log[i]) : p.timestamp # eur_price_df.index[r]
            /\ requests_log[i].startPeriod <= eur_price_df.index[r]
            /\ eur_price_df.index[r] < requests_log[i].endPeriod

\* C6: the columns of a returned table are the zones that yielded data, one
\* column each, in alphabetical order.
C6_ColumnsAlphabetical ==
  prices.kind = "frame" => prices.df.columns = SortedList(ZonesWithData)

\* the end-to-end scenario: one zone, 2024-12-12 to 2024-12-13, no conversion,
\* the request answered with status 200, the table returned
OneDayScenario ==
  /\ caller = "lib"
  /\ bidding_zone_list = <<NO1>>
  /\ start_time = 0
  /\ end_time = 1
  /\ ~convert_to_nok
  /\ AllRequestsSucceeded
  /\ prices.kind = "frame"

\* the 15-minute slots of [start, end), each once, in increasing order
QuarterHourGrid(start, end) == [k \in 1..(end - start) |-> start + k - 1]

Converted ==
  /\ convert_to_nok
  /\ exchange_rates.kind = "series"
  /\ Len(exchange_rates.index) > 0

\* the rate the returned series holds for calendar day d
RateOfDay(d) ==
  exchange_rates.values[CHOOSE k \in 1..Len(exchange_rates.index) : exchange_rates.index[k] = d]

\* C8: the unit tag of a returned table is "NOK/kWh" exactly when its values
\* were converted.  If conversion was requested and the rate fetch returned a
\* non-empty series, every cell is the EUR/MWh price times the rate of the
\* cell's local day, divided by 1000 (cells are held in thousandths, so 100
\* EUR/MWh at 11 NOK/EUR is 1100, i.e. 1.1 NOK/kWh); otherwise every cell keeps
\* its EUR/MWh value and the tag is "EUR/MWh"; and once the rate fetch has
\* returned, the price fetch does not abort.
C8_UnitTagIffConverted ==
  /\ prices.kind = "frame" =>
       /\ prices.df.unit = (IF Converted THEN "NOK/kWh" ELSE "EUR/MWh")
       /\ prices.df.index = eur_price_df.index
       /\ prices.df.columns = eur_price_df.columns
       /\ \A c \in ColumnSet(eur_price_df) : \A i \in 1..Len(eur_price_df.index) :
            prices.df.data[c][i] =
              IF ~Converted \/ eur_price_df.data[c][i] = NaN THEN eur_price_df.data[c][i]
              ELSE eur_price_df.data[c][i] * RateOfDay(LocalDayOf(eur_price_df.index[i]))
  /\ (caller # "rates" /\ exchange_rates.kind # "running") => pc # "raised"

\* a table converted with the rates of two days was returned; one of its cells
\* is 100 EUR/MWh at 11 NOK/EUR, converted to 1.1 NOK/kWh
C8_Witness ==
  /\ prices.kind = "frame"
  /\ prices.df.unit = "NOK/kWh"
  /\ end_time - start_time >= 2
  /\ \E c \in ColumnSet(eur_price_df) : \E i \in 1..Len(eur_price_df.index) :
       /\ eur_price_df.data[c][i] = 100
       /\ RateOfDay(LocalDayOf(eur_price_df.index[i])) = 11
       /\ prices.df.data[c][i] = 1100

\* conversion was requested, the rate fetch returned None, and the table was
\* returned in EUR/MWh
C8_WitnessFallback ==
  /\ prices.kind = "frame"
  /\ convert_to_nok
  /\ exchange_rates.kind = "None"
  /\ prices.df.unit = "EUR/MWh"
  /\ Len(prices.df.index) > 0

\* the requests sent to Norges Bank so far
BankRequests == RequestsTo("norges_bank", requests_log)

\* the position of the first request to Norges Bank that did not get an error
\* status, 0 if there is none
FirstAnswered(nb) ==
  IF \E k \in 1..Len(nb) : nb[k].status # "error"
  THEN CHOOSE k \in 1..Len(nb) :
         /\ nb[k].status # "error"
         /\ \A j \in 1..(k - 1) : nb[j].status = "error"
  ELSE 0

\* request number k is the probe for the single day k - 1 days before the
\* weekend-adjusted start
IsProbe(nb, k) ==
  /\ nb[k].startPeriod = WeekendAdjusted(start_time) - (k - 1)
  /\ nb[k].endPeriod = nb[k].startPeriod

\* C9: at most 4 single-day probes are sent; probe k asks for the
\* weekend-adjusted start minus (k - 1) days; probing stops at the first
\* successful response, after which exactly one request for [found day, end]
\* is sent; after 4 failed probes no further request is sent and None is
\* returned.
C9_ProbesThenOneFullRequest ==
  LET nb == BankRequests
      n == Len(nb)
      p == FirstAnswered(nb)
      returned == exchange_rates.kind # "running"
  IN IF p = 0
     THEN /\ n <= 4
          /\ \A k \in 1..n : IsProbe(nb, k)
          /\ returned => /\ exchange_rates.kind = "None"
                         /\ n = (IF end_time < start_time THEN 0 ELSE 4)
     ELSE /\ p <= 4
          /\ \A k \in 1..p : IsProbe(nb, k)
          /\ n <= p + 1
          /\ n = p + 1 => /\ nb[p].status = "200"
                          /\ nb[n].startPeriod = nb[p].startPeriod
                          /\ nb[n].endPeriod = end_time
          /\ returned => n = p + 1
          /\ exchange_rates.kind = "series" => nb[n].status = "200"

\* two probes failed, the third succeeded, and the one request for the full
\* period was answered
C9_Witness ==
  /\ exchange_rates.kind = "series"
  /\ Len(BankRequests) = 4
  /\ BankRequests[1].status = "error"
  /\ BankRequests[2].status = "error"
  /\ BankRequests[3].status = "200"
  /\ BankRequests[4].startPeriod = WeekendAdjusted(start_time) - 2

\* four probes failed and None was returned without a request for the full period
C9_WitnessExhausted ==
  /\ exchange_rates.kind = "None"
  /\ Len(BankRequests) = 4
  /\ \A k \in 1..4 : BankRequests[k].status = "error" /\ IsProbe(BankRequests, k)

\* the most recent day up to d on which the bank published a rate
LastPublishedDay(d) ==
  CHOOSE p \in (d - 7)..d : Published(p) /\ \A q \in (p + 1)..d : ~Published(q)

C10_WitnessSunday ==
  /\ exchange_rates.kind = "series"
  /\ Weekday(start_time) = 6
  /\ holidays = {}
  /\ exchange_rates.index[1] = start_time
  /\ exchange_rates.values[1] = EurNok(start_time - 2)

\* the call of fetch_conversion_rates has ended, by a return or by an exception
RatesEnded == exchange_rates.kind # "running" \/ (pc = "raised" /\ prices.kind = "running")

\* one of the failures of the rate fetch: end before start, four probes
\* answered with a non-success status, a non-success status for the full
\* period, or a 200 response for the full period whose payload is not complete
RatesFailure ==
  LET nb == BankRequests
      n == Len(nb)
  IN \/ end_time < start_time
     \/ n = max_attempts /\ \A k \in 1..n : nb[k].status = "error"
     \/ /\ n >= 2
        /\ nb[n - 1].status = "200"
        /\ nb[n].status = "error" \/ (nb[n].status = "200" /\ nb[n].outcome # "complete")

\* C11: on every failure (end before start, a non-success response to every
\* probe, a non-success response to the full-period request, a successful
\* response whose payload lacks the expected structure) fetch_conversion_rates
\* returns None and raises nothing.
C11_NoneWithoutRaisingOnEveryFailure ==
  (RatesEnded /\ RatesFailure) => (exchange_rates.kind = "None" /\ pc # "raised")

\* What the code does about C11: None is returned for end before start, for
\* non-success statuses and for a payload without "data" or "dataSets"; an
\* empty dataSets list or a data set without the series raises.
C11_NoneUnlessDataSetsUnusable ==
  (RatesEnded /\ RatesFailure) =>
    LET last == BankRequests[Len(BankRequests)]
    IN IF end_time >= start_time /\ last.status = "200" /\ UnpackError(last.outcome) # ""
       THEN pc = "raised" /\ exception = UnpackError(last.outcome) /\ exchange_rates.kind = "running"
       ELSE exchange_rates.kind = "None" /\ pc # "raised"

\* get_valid_bidding_zones has returned bidding_zone_list for bidding_zone_input
ZonesReturned == caller = "zones" /\ pc = "done"

\* the group keywords of the configuration table
GroupKeywords == {kw_norway, kw_denmark, kw_sweden, kw_nordics, kw_baltics, DE, kw_cwe, kw_nsl, kw_all}

\* C12: for every group keyword, the single-token list [keyword] resolves to
\* exactly that keyword's zone set (norway, denmark, sweden, nordics, baltics,
\* DE, cwe, nsl, all).
C12_KeywordGivesItsGroup ==
  (ZonesReturned /\ Len(bidding_zone_input) = 1 /\ bidding_zone_input[1] \in GroupKeywords) =>
    SeqRange(bidding_zone_list) = GroupZones(bidding_zone_input[1])

\* What the code does about C12: the keywords the expansion loop walks over
\* give their group; denmark, sweden, baltics and nsl give the empty list.
C12_OnlyExpansionKeysGiveTheirGroup ==
  (ZonesReturned /\ Len(bidding_zone_input) = 1 /\ bidding_zone_input[1] \in GroupKeywords) =>
    SeqRange(bidding_zone_list) =
      (IF bidding_zone_input[1] \in expansion_keys THEN GroupZones(bidding_zone_input[1]) ELSE {})

\* the country a token starts with, in whatever letter case it is written
ShorthandCountry(t) ==
  IF Len(t) < 2 THEN <<>>
  ELSE IF t[1] \in {"N", "n"} /\ t[2] \in {"O", "o"} THEN <<"N", "O">>
  ELSE IF t[1] \in {"D", "d"} /\ t[2] \in {"K", "k"} THEN <<"D", "K">>
  ELSE IF t[1] \in {"S", "s"} /\ t[2] \in {"E", "e"} THEN <<"S", "E">>
  ELSE <<>>

\* the sub-tokens of the input, as the comma split produces them
SubTokens == bidding_zone_input_split(bidding_zone_input)

\* a sub-token that names a zone, a group or a shorthand
NamesSomething(t) ==
  \/ t \in all_bidding_zones
  \/ t \in GroupKeywords
  \/ ShorthandCountry(LStrip(t)) # <<>>

\* C13: for every input token list, get_valid_bidding_zones returns a list in
\* strictly ascending order (so sorted and free of duplicates) of valid zones
\* only; ["all"] returns the whole universe; a list in which no token names a
\* zone, a shorthand or a group returns the empty list.
C13_SortedUniqueValidZones ==
  ZonesReturned =>
    /\ \A i \in 1..Len(bidding_zone_list) : \A j \in 1..Len(bidding_zone_list) :
         i < j => StrLess(bidding_zone_list[i], bidding_zone_list[j])
    /\ SeqRange(bidding_zone_list) \subseteq all_bidding_zones
    /\ bidding_zone_input = <<kw_all>> =>
         /\ SeqRange(bidding_zone_list) = all_bidding_zones
         /\ Len(bidding_zone_list) = Cardinality(all_bidding_zones)
    /\ (\A t \in SubTokens : ~NamesSomething(t)) => bidding_zone_list = <<>>
    /\ exception = ""

\* "PL,all" and "xx" were resolved: every zone of the universe once, in order,
\* the unknown token dropped
C13_Witness ==
  /\ ZonesReturned
  /\ bidding_zone_input = <<<<"P", "L", ",", "a", "l", "l">>, <<"x", "x">>>>
  /\ Len(bidding_zone_list) = 22
  /\ bidding_zone_list[1] = AT
  /\ bidding_zone_list[22] = SE_4

\* ["xx"] was resolved to the empty list
C13_WitnessUnknown ==
  /\ ZonesReturned
  /\ bidding_zone_input = <<<<"x", "x">>>>
  /\ bidding_zone_list = <<>>

\* the shorthands of the input: sub-tokens made of NO, DK or SE in any letter
\* case followed by one digit
Shorthands ==
  {t \in SubTokens : Len(t) = 3 /\ ShorthandCountry(t) # <<>> /\ t[3] \in Digits}

\* C14: a shorthand <COUNTRY><DIGIT> with COUNTRY in {NO, DK, SE}, in any
\* letter case, whose underscored form is a valid zone resolves to that zone
\* (["NO2"] gives exactly ["NO_2"]); a shorthand whose underscored form is no
\* valid zone adds nothing; ["DE"] resolves to a list that includes DE_LU.
C14_ShorthandGivesUnderscoredZone ==
  ZonesReturned =>
    /\ \A t \in Shorthands :
         LET zone == ShorthandCountry(t) \o <<"_", t[3]>>
         IN /\ zone \in all_bidding_zones => zone \in SeqRange(bidding_zone_list)
            /\ Len(bidding_zone_input) = 1 /\ SubTokens = {t} =>
                 bidding_zone_list = (IF zone \in all_bidding_zones THEN <<zone>> ELSE <<>>)
    /\ bidding_zone_input = <<NO2>> => bidding_zone_list = <<NO_2>>
    /\ DE \in SubTokens => DE_LU \in SeqRange(bidding_zone_list)

\* the lower-case shorthand "no2" was resolved to exactly ["NO_2"]
C14_Witness ==
  /\ ZonesReturned
  /\ bidding_zone_input = <<<<"n", "o", "2">>>>
  /\ bidding_zone_list = <<NO_2>>

\* the shorthand "NO9" of a zone that does not exist was resolved to nothing
C14_WitnessInvalid ==
  /\ ZonesReturned
  /\ bidding_zone_input = <<<<"N", "O", "9">>>>
  /\ bidding_zone_list = <<>>

\* parse_date_reference(arg_start) has ended, by a return or by a raise
ParseEnded == caller = "dates" /\ arg_end = <<>> /\ parsed.kind # "running"


\* the calendar date a returned "yyyy-mm-dd" string names
DateOf(value) ==
  [year |-> ToInt(SubSeq(value, 1, 4)), month |-> ToInt(SubSeq(value, 6, 7)),
   day |-> ToInt(SubSeq(value, 9, 10)), hour |-> 0]

\* the number of days from date a to date b
DaysBetween(a, b) == ToOrdinal(b) - ToOrdinal(a)

\* 2024-01-01, a Monday
KnownMonday == [year |-> 2024, month |-> 1, day |-> 1, hour |-> 0]

\* the first applicable date of the absolute references that are dates
AbsoluteExpected ==
  {<<(<<"2", "0", "2", "4">>), (<<"2", "0", "2", "4", "-", "0", "1", "-", "0", "1">>)>>,
   <<(<<"2", "0", "2", "4", "-", "0", "2">>), (<<"2", "0", "2", "4", "-", "0", "2", "-", "0", "1">>)>>,
   <<(<<"2", "0", "2", "4", "-", "0", "2", "-", "2", "9">>),
     (<<"2", "0", "2", "4", "-", "0", "2", "-", "2", "9">>)>>,
   <<(<<"2", "0", "2", "4", "-", "1", "2", "-", "3", "1", " ", "2", "3", ":", "5", "9">>),
     (<<"2", "0", "2", "4", "-", "1", "2", "-", "3", "1">>)>>}

\* C15: a reference without offset resolves as follows, at every current
\* date and time: an absolute yyyy, yyyy-mm, yyyy-mm-dd or yyyy-mm-dd hh:mm
\* gives the first applicable calendar date; DAY gives today; WEEK the Monday
\* of the current week; MONTH the first day of the current month; YEAR
\* January 1 of the current year; LAST_SDAC tomorrow before 13:00 and the day
\* after tomorrow from 13:00 on.
C15_ReferenceWithoutOffset ==
  ParseEnded =>
    /\ \A e \in AbsoluteExpected : arg_start = e[1] => parsed = Returned(e[2])
    /\ arg_start \in Anchors =>
         /\ parsed.kind = "returned"
         /\ Len(parsed.value) = 10 /\ parsed.value[5] = "-" /\ parsed.value[8] = "-"
         /\ LET date == DateOf(parsed.value)
            IN /\ ValidDate(date.year, date.month, date.day)
               /\ arg_start = DAY => DaysBetween(today, date) = 0
               /\ arg_start = WEEK =>
                    /\ DaysBetween(date, today) \in 0..6
                    /\ DaysBetween(KnownMonday, date) % 7 = 0
               /\ arg_start = MONTH =>
                    date.year = today.year /\ date.month = today.month /\ date.day = 1
               /\ arg_start = YEAR =>
                    date.year = today.year /\ date.month = 1 /\ date.day = 1
               /\ arg_start = LAST_SDAC =>
                    DaysBetween(today, date) = (IF today.hour < 13 THEN 1 ELSE 2)

\* LAST_SDAC at 13:00 on the last day of the year gives January 2 of the next
C15_Witness ==
  /\ ParseEnded
  /\ arg_start = LAST_SDAC
  /\ today = [year |-> 2024, month |-> 12, day |-> 31, hour |-> 13]
  /\ parsed = Returned(<<"2", "0", "2", "5", "-", "0", "1", "-", "0", "2">>)

\* WEEK on Sunday 2024-03-03 gives Monday 2024-02-26
C15_WitnessWeek ==
  /\ ParseEnded
  /\ arg_start = WEEK
  /\ today = [year |-> 2024, month |-> 3, day |-> 3, hour |-> 12]
  /\ parsed = Returned(<<"2", "0", "2", "4", "-", "0", "2", "-", "2", "6">>)

\* the date an anchor keyword gives at the current time
AnchorDate(a) == DateOf(parse_date_reference(a, today).value)

\* the signed count of an offset: the count, 1 when omitted, times the sign
SignedCount(sg, c) == (IF c = <<>> THEN 1 ELSE ToInt(c)) * (IF sg = "+" THEN 1 ELSE -1)

\* the months from the month of date a to the month of date b
MonthsBetween(a, b) == (12 * b.year + b.month) - (12 * a.year + a.month)

\* the date is the anchor's date moved n units
MovedBy(anchor, date, n, u) ==
  /\ ValidDate(date.year, date.month, date.day)
  /\ u = "D" => DaysBetween(anchor, date) = n
  /\ u = "W" => DaysBetween(anchor, date) = 7 * n
  /\ u = "M" => MonthsBetween(anchor, date) = n
  /\ u = "Y" => date.year - anchor.year = n /\ date.month = anchor.month

\* C16: for every current date, every anchor keyword and every N >= 1,
\* <ANCHOR>+<N><UNIT> and <ANCHOR>-<N><UNIT> return the anchor's date moved N
\* units (D days, W weeks, M calendar months, Y years, N = 1 when omitted);
\* month and year offsets always give a valid calendar date and the call
\* does not fail.
C16_OffsetMovesAnchor ==
  ParseEnded =>
    \A a \in Anchors : \A sg \in {"+", "-"} : \A c \in Counts : \A u \in {"D", "W", "M", "Y"} :
      arg_start = a \o <<sg>> \o c \o <<u>> =>
        /\ parsed.kind = "returned"
        /\ MovedBy(AnchorDate(a), DateOf(parsed.value), SignedCount(sg, c), u)

\* the year and month k months away from year y, month m
MonthShift(y, m, k) ==
  LET i == 12 * y + (m - 1) + k
  IN [year |-> i \div 12, month |-> (i % 12) + 1]

\* the anchor's day of the month exists in every month stepped through (M),
\* in the target year (Y)
DayExistsOnTheWay(anchor, n, u) ==
  IF u = "M"
  THEN \A k \in 1..(IF n < 0 THEN 0 - n ELSE n) :
         LET ym == MonthShift(anchor.year, anchor.month, IF n < 0 THEN 0 - k ELSE k)
         IN anchor.day <= DaysInMonth(ym.year, ym.month)
  ELSE IF u = "Y" THEN anchor.day <= DaysInMonth(anchor.year + n, anchor.month)
  ELSE TRUE

\* What the code does about C16: on DAY, WEEK, MONTH and YEAR an offset moves
\* the anchor's date by N units and keeps the day of the month, and the call
\* raises when that day is missing in a month stepped through or in the
\* target year; an offset on LAST_SDAC raises an invalid date reference.
C16_OffsetMovesAnchorOrRaises ==
  ParseEnded =>
    \A a \in Anchors : \A sg \in {"+", "-"} : \A c \in Counts : \A u \in {"D", "W", "M", "Y"} :
      arg_start = a \o <<sg>> \o c \o <<u>> =>
        IF a = LAST_SDAC THEN parsed = Raised("Invalid date reference")
        ELSE IF DayExistsOnTheWay(AnchorDate(a), SignedCount(sg, c), u)
        THEN /\ parsed.kind = "returned"
             /\ MovedBy(AnchorDate(a), DateOf(parsed.value), SignedCount(sg, c), u)
             /\ u \in {"M", "Y"} => DateOf(parsed.value).day = AnchorDate(a).day
        ELSE parsed = Raised("day is out of range for month")

\* the references of an accepted form among those drawn
AcceptedReferences == {e[1] : e \in AbsoluteExpected} \cup Anchors \cup OffsetReferences

\* C17: parse_date_reference raises an invalid-date-reference error and
\* returns no date for every input that is not an absolute date, an anchor
\* keyword, or an anchor followed by a sign, an optional count and one unit
\* letter of D, W, M, Y.
C17_RaisesOnEveryOtherInput ==
  (ParseEnded /\ arg_start \notin AcceptedReferences) =>
    (parsed.kind = "raised" /\ pc = "raised" /\ exception = "ValueError")

\* What the code does about C17: the invalid-date-reference error is raised
\* exactly for a reference that matches none of the four patterns, is not
\* LAST_SDAC and does not start with DAY, MONTH, WEEK or YEAR; whatever
\* follows such a prefix is accepted unless it ends in a unit letter after a
\* count that is no number.
C17_RaisesUnlessAnchorPrefix ==
  ParseEnded =>
    (parsed = Raised("Invalid date reference")) <=>
      /\ valid_formats(arg_start) = 0
      /\ arg_start # LAST_SDAC
      /\ \A a \in {DAY, MONTH, WEEK, YEAR} : ~StartsWith(arg_start, a)

\* convert_date_range(arg_start, arg_end) has ended
RangeEnded == caller = "dates" /\ arg_end # <<>> /\ parsed.kind # "running"

\* C18: convert_date_range raises an invalid-range error exactly when the
\* parsed start date is not strictly earlier than the parsed end date (equal
\* dates raise); otherwise it returns exactly the pair (parsed start, parsed
\* end), so every returned pair has start < end, at least one day apart.
C18_RangeErrorIffStartNotBeforeEnd ==
  RangeEnded =>
    LET start_date == parse_date_reference(arg_start, today)
        end_date == parse_date_reference(arg_end, today)
    IN /\ (start_date.kind = "returned" /\ end_date.kind = "returned") =>
            IF DaysBetween(DateOf(start_date.value), DateOf(end_date.value)) <= 0
            THEN /\ parsed.kind = "raised"
                 /\ parsed.message = "The start date must be before the end date and at least one day apart."
            ELSE parsed = Returned(<<start_date.value, end_date.value>>)
       /\ parsed.kind = "returned" =>
            DaysBetween(DateOf(parsed.value[1]), DateOf(parsed.value[2])) >= 1
       /\ (start_date.kind = "raised" \/ end_date.kind = "raised") =>
            (parsed.kind = "raised" /\ parsed.message # "The start date must be before the end date and at least one day apart.")

\* DAY and DAY resolve to the same day: the range error is raised
C18_Witness ==
  /\ RangeEnded
  /\ arg_start = DAY
  /\ arg_end = DAY
  /\ parsed = Raised("The start date must be before the end date and at least one day apart.")

\* 2024-02-29 to 2024-03-01, one day apart, is returned as it is
C18_WitnessReturned ==
  /\ RangeEnded
  /\ parsed = Returned(<<(<<"2", "0", "2", "4", "-", "0", "2", "-", "2", "9">>),
                         (<<"2", "0", "2", "4", "-", "0", "3", "-", "0", "1">>)>>)

\* the failure paths of main: the dates were not resolved, the zone list is
\* empty, no prices were fetched, the folder of the output path is missing
DatesUnresolved == caller = "cli" /\ parsed.kind = "raised"
EmptyZoneList ==
  caller = "cli" /\ parsed.kind = "returned" /\ get_valid_bidding_zones(bidding_zone_input) = <<>>
NoPricesFetched == caller = "cli" /\ prices.kind = "None"
MissingOutputFolder ==
  caller = "cli" /\ prices.kind = "frame" /\ output_file_path = "folder_missing"

\* C19: every failure path of main (empty zone list, a date reference that
\* cannot be resolved or an invalid range, no prices fetched, a missing output
\* folder) ends by returning normally, never by an unhandled exception; and no
\* price request is issued when the zone list is empty or the dates are
\* unresolved.
C19_FailurePathsReturnNormally ==
  /\ (DatesUnresolved \/ EmptyZoneList) => (requests_log = <<>> /\ pc # "raised")
  /\ NoPricesFetched => pc # "raised"
  /\ (MissingOutputFolder /\ pc \in {"done", "returned"}) => (exception = "" /\ ~csv_written)

\* What the code does about C19: unresolved dates and an invalid range leave
\* main by the ValueError of convert_date_range, before any request; an empty
\* zone list returns without a request; a missing folder skips the file.
C19_DateErrorsLeaveMainByException ==
  /\ DatesUnresolved => (pc = "raised" /\ exception = "ValueError" /\ requests_log = <<>>)
  /\ EmptyZoneList => (requests_log = <<>> /\ pc \in {"main", "done"} /\ exception = "")
  /\ (MissingOutputFolder /\ pc \in {"done", "returned"}) => (exception = "" /\ ~csv_written)

\* the requests of the chunk at hand that were answered with status 200
AnsweredInChunk ==
  {k \in 1..Len(requests_log) :
     /\ requests_log[k].api = "entsoe"
     /\ requests_log[k].startPeriod = current_start_utc
     /\ requests_log[k].endPeriod = current_end_utc
     /\ requests_log[k].status = "200"}

\* the points of all series of the response to a logged request
ResponsePoints(req) ==
  ParsePoints(EntsoePeriods(req.zone, req.startPeriod, req.endPeriod, req.outcome))

\* the points that are to contribute: those of the PT60M series for the
\* German zone, those of all series for every other zone
Contributing(req) ==
  IF req.zone = DE THEN {r \in ResponsePoints(req) : r.resolution = 60}
  ELSE ResponsePoints(req)

\* period-start + (position - 1) x resolution-minutes, in slots
PlacedAt(r) == r.start_time + ((r.position - 1) * r.resolution) \div MinutesPerSlot

\* the zone's column of the chunk's table holds every contributing point at
\* its timestamp, and nothing else
ColumnHolds(req) ==
  /\ req.zone \in ColumnSet(data_frame)
  /\ \A r \in Contributing(req) :
       \E i \in 1..Len(data_frame.index) :
         /\ data_frame.index[i] = PlacedAt(r)
         /\ data_frame.data[req.zone][i] = r.price_amount
  /\ \A i \in 1..Len(data_frame.index) :
       data_frame.data[req.zone][i] # NaN =>
         \E r \in Contributing(req) :
           /\ data_frame.index[i] = PlacedAt(r)
           /\ data_frame.data[req.zone][i] = r.price_amount

\* two contributing points of a response fall on the same timestamp
TimestampsCollide(req) ==
  \E r1, r2 \in Contributing(req) : r1 # r2 /\ PlacedAt(r1) = PlacedAt(r2)

\* C20: a successful response is taken into the zone's column, for the German
\* zone with the points of the PT60M series only, for every other zone with
\* the points of all series, each at period-start + (position - 1) x
\* resolution-minutes; handling a successful response does not fail.
C20_SeriesKeptPerZone ==
  /\ exception # "ValueError"
  /\ pc = "zone_loop" => \A k \in AnsweredInChunk : ColumnHolds(requests_log[k])

\* C20, what the code does: the column holds the contributing points at their
\* timestamps whenever the response was taken in, the German zone's response
\* with both series is taken in with its PT60M points, and the call ends with
\* a ValueError exactly when the response of another zone holds two points
\* for one timestamp (a PT15M and a PT60M series of the same day).
C20_SeriesKeptUnlessTimestampsCollide ==
  /\ pc = "zone_loop" => \A k \in AnsweredInChunk :
       /\ ColumnHolds(requests_log[k])
       /\ ~TimestampsCollide(requests_log[k])
  /\ exception = "ValueError" <=>
       /\ pc = "raised"
       /\ requests_log # <<>>
       /\ LET req == requests_log[Len(requests_log)]
          IN /\ req.status = "200"
             /\ req.zone # DE
             /\ req.outcome = "mixed"
             /\ TimestampsCollide(req)

\* the German zone's response with both series has been taken into its column
C20_WitnessGerman ==
  /\ pc = "zone_loop"
  /\ \E k \in AnsweredInChunk :
       /\ requests_log[k].zone = DE
       /\ requests_log[k].outcome = "mixed"
       /\ DE \in ColumnSet(data_frame)


\* the requests answered with status 200 and without any price point
EmptyAnswers ==
  {k \in 1..Len(requests_log) :
     /\ requests_log[k].api = "entsoe"
     /\ requests_log[k].status = "200"
     /\ ResponsePoints(requests_log[k]) = {}}

\* the zone has no value in the chunk's table
NoValuesFor(zone) ==
  zone \in ColumnSet(data_frame) =>
    \A i \in 1..Len(data_frame.index) : data_frame.data[zone][i] = NaN

\* C21: a response with status 200 that holds no price point for a zone does
\* not abort fetch_day_ahead_prices_api: the call is not ended by an exception
\* after it, the zone has no values in the chunk's table, and the loop goes on
\* to the zones that remain.
C21_EmptyResponseDoesNotAbort ==
  \A k \in EmptyAnswers :
    /\ ~(pc = "raised" /\ k = Len(requests_log))
    /\ (pc = "zone_loop" /\ k \in AnsweredInChunk) =>
         /\ NoValuesFor(requests_log[k].zone)
         /\ bz_i > CHOOSE i \in 1..Len(bidding_zone_list) :
                     bidding_zone_list[i] = requests_log[k].zone

\* C21, what the code does: the response without points ends the call with a
\* KeyError at once, so it is the last request of the run, the zones after it
\* in the list are not requested for the chunk, and no table is returned.
C21_EmptyResponseRaisesKeyError ==
  \A k \in EmptyAnswers :
    /\ k = Len(requests_log)
    /\ pc = "raised"
    /\ exception = "KeyError"
    /\ prices.kind = "running"
    /\ bidding_zone_list[bz_i] = requests_log[k].zone

\* a response without points came for the first of two zones, and the second
\* zone was never requested
C21_WitnessSecondZoneNotRequested ==
  /\ Len(bidding_zone_list) = 2
  /\ EmptyAnswers # {}
  /\ \A k \in 1..Len(requests_log) : requests_log[k].zone = bidding_zone_list[1]

====
